---- MODULE Spec2Model ----
(***************************************************************************)
(* A model of server/main.py of yt-summary-app: the error classifier, the  *)
(* backoff executor (_with_backoff), the extraction strategy chain         *)
(* (fetch_transcript_text), the result cache (CACHE, get_cached_result,    *)
(* set_cached_result) and the summarize_by_id handler that uses them.      *)
(*                                                                         *)
(* Error messages and transcript texts are strings; the substring tests   *)
(* of the source ("tok in msg", "keyword.lower() in error_lower") are      *)
(* computed on them character by character.  The source's Korean literals  *)
(* are written in Latin transliteration, which keeps which literal is a    *)
(* substring of which; the long fixed sentences of the source's messages   *)
(* are shortened, keeping the words the classifier and the chain test.     *)
(***************************************************************************)
EXTENDS Integers, Sequences, FiniteSets, TLC

VARIABLES
    bo,        \* the activation record of one _with_backoff call
    script,    \* what the operation given to _with_backoff does on its i-th call
    ch,        \* the activation record of one fetch_transcript_text call
    CACHE,     \* the module-level dict, as the sequence of its items in insertion order
    th,        \* the requests (threads) running summarize_by_id
    client,    \* a single caller using the cache functions one call at a time
    env        \* the process environment: which credentials are configured

vars == <<bo, script, ch, CACHE, th, client, env>>

-----------------------------------------------------------------------------
(* Strings: str.lower() and the "in" substring test.                        *)

UpperAlpha == "ABCDEFGHIJKLMNOPQRSTUVWXYZ"
LowerAlpha == "abcdefghijklmnopqrstuvwxyz"

LowerChar(c) ==
    IF \E i \in 1..Len(UpperAlpha) : SubSeq(UpperAlpha, i, i) = c
    THEN LET i == CHOOSE j \in 1..Len(UpperAlpha) : SubSeq(UpperAlpha, j, j) = c
         IN  SubSeq(LowerAlpha, i, i)
    ELSE c

RECURSIVE lower(_)
lower(s) ==
    IF Len(s) = 0 THEN ""
    ELSE LowerChar(SubSeq(s, 1, 1)) \o lower(SubSeq(s, 2, Len(s)))

Whitespace == {" ", "\n", "\t", "\r"}

\* str.strip()
RECURSIVE strip(_)
strip(s) ==
    IF Len(s) = 0 THEN s
    ELSE IF SubSeq(s, 1, 1) \in Whitespace THEN strip(SubSeq(s, 2, Len(s)))
    ELSE IF SubSeq(s, Len(s), Len(s)) \in Whitespace THEN strip(SubSeq(s, 1, Len(s) - 1))
    ELSE s

\* Python's  k in m  on two strings.
Contains(k, m) ==
    \E i \in 1..(Len(m) - Len(k) + 1) : SubSeq(m, i, i + Len(k) - 1) = k

-----------------------------------------------------------------------------
(* The error classifier.                                                    *)

\* The tokens of the rate-limit test, matched case-sensitively.
tokens429 == <<"Too Many Requests", "429", "sorry/index">>

\* restricted_keywords, in the source's order.  The last Korean entries are
\* "YouTube jamak jeobgeun jehan", "jamak cheori jung oryu", "jeobgeun jehan"
\* and "jehan" in transliteration.
restricted_keywords ==
    << "Too Many Requests", "429", "sorry/index",
       "Sign in to confirm", "bot", "captcha", "verification",
       "blocked", "forbidden", "access denied", "rate limit",
       "quota exceeded", "daily limit", "hourly limit",
       "Client Error", "youtube", "transcript", "retrieve",
       "Could not retrieve", "transcript for the video",
       "YouTube jamak jeobgeun jehan", "jamak cheori jung oryu",
       "jeobgeun jehan", "jehan", "restricted", "limit" >>

_is_429_error(error_msg) ==
    \E t \in 1..Len(tokens429) : Contains(tokens429[t], error_msg)

\* Whether a message holds one of the restricted_keywords that is not itself a
\* rate-limit token (bot detection, captcha, blocking, quota, ...).
HasBlockingKeyword(error_msg) ==
    LET error_lower == lower(error_msg)
    IN  \E k \in 4..Len(restricted_keywords) :
            Contains(lower(restricted_keywords[k]), error_lower)

_is_access_restricted_error(error_msg) ==
    LET error_lower == lower(error_msg)
    IN  \E k \in 1..Len(restricted_keywords) :
            Contains(lower(restricted_keywords[k]), error_lower)

\* The rate-limit test made before the access-restricted test.
ErrorClassRateFirst(msg) ==
    IF _is_429_error(msg) THEN "RATE_LIMITED"
    ELSE IF _is_access_restricted_error(msg) THEN "ACCESS_RESTRICTED"
    ELSE "OTHER"

\* The class _with_backoff gives an error: the access-restricted test is made
\* first, the rate-limit test second, and everything else is OTHER.
ErrorClass(msg) ==
    IF _is_access_restricted_error(msg) THEN "ACCESS_RESTRICTED"
    ELSE IF _is_429_error(msg) THEN "RATE_LIMITED"
    ELSE "OTHER"

-----------------------------------------------------------------------------
(* The backoff executor, _with_backoff.                                     *)

delays == <<1, 3, 7, 12>>

\* The list the for loop runs over, [0] + delays.
schedule == <<0>> \o delays

NAttempts == Len(schedule)

\* What one call of the operation does: it returns, or raises an error with
\* one of these messages.
Returned == "<returned>"

ErrorMessages ==
    { "HTTP Error 429: Too Many Requests",
      "too many requests",
      "https://www.google.com/sorry/index?continue=watch",
      "Sign in to confirm you are not a bot (429)",
      "HTTP Error 403: Forbidden",
      "Connection timed out" }

CallOutcomes == ErrorMessages \cup {Returned}

\* last_err = None
NoError == "<None>"

\* The classifier's answers on the messages above, computed once.
Is429         == [m \in ErrorMessages |-> _is_429_error(m)]
IsRestricted  == [m \in ErrorMessages |-> _is_access_restricted_error(m)]
IsBlocking    == [m \in ErrorMessages |-> HasBlockingKeyword(m)]
ClassOf       == [m \in ErrorMessages |-> ErrorClass(m)]

\* Every error that is not access-restricted is retried.
retryableAnyOther(msg) == ClassOf[msg] # "ACCESS_RESTRICTED"

\* The error handler's decision: True for "continue", False for "raise".
retryable(msg) == ClassOf[msg] = "RATE_LIMITED"

InitBackoff ==
    /\ bo = [pc |-> "loop", i |-> 1, calls |-> 0, slept |-> <<>>, events |-> <<>>,
             last_err |-> NoError, err |-> NoError]
    /\ script \in [1..NAttempts -> CallOutcomes]

\* What the executor does, in order: time.sleep(seconds) and callable_fn().
Sleep(seconds) == [op |-> "sleep", seconds |-> seconds]
Call           == [op |-> "call", seconds |-> 0]

\* One iteration of "for delay in [0] + delays", or, once the list is
\* exhausted, the final "raise last_err".
with_backoff ==
    /\ bo.pc = "loop"
    /\ bo' =
        IF bo.i > Len(schedule)
        THEN [bo EXCEPT !.pc = "raised", !.err = bo.last_err]
        ELSE LET delay == schedule[bo.i]
                 slept == IF delay # 0 THEN Append(bo.slept, delay) ELSE bo.slept
                 r     == script[bo.calls + 1]
                 b     == [bo EXCEPT !.slept = slept, !.calls = @ + 1,
                                     !.events = (IF delay # 0 THEN Append(@, Sleep(delay)) ELSE @)
                                                   \o <<Call>>]
             IN  IF r = Returned
                 THEN [b EXCEPT !.pc = "returned"]
                 ELSE IF retryable(r)
                      THEN [b EXCEPT !.last_err = r, !.i = @ + 1]
                      ELSE [b EXCEPT !.last_err = r, !.pc = "raised", !.err = r]
    /\ UNCHANGED <<script, ch, CACHE, th, client, env>>

-----------------------------------------------------------------------------
(* The extraction strategy chain, fetch_transcript_text.                    *)

\* What a strategy's function does when called: it raises an error, returns
\* None, or returns a string.
Raise(msg)  == [kind |-> "raise", val |-> msg]
ReturnNone  == [kind |-> "none",  val |-> ""]
Return(str) == [kind |-> "text",  val |-> str]
NotRun      == [kind |-> "notrun", val |-> ""]

\* Python's truth value of a returned Optional[str].
Truthy(o) == o.kind = "text" /\ o.val # ""

\* The marker the chain looks for in strategy 5's string ("yeongsang jemok" is
\* the transliteration of the source's Korean for "video title").
TitleMarker == "yeongsang jemok"

\* The resource ids of the chain's runs: an ordinary id, and an id that holds
\* the marker itself (the id is the caller's path or query parameter).
ChainVideoIds == {"dQw4w9WgXcQ", "yeongsang jemok 7"}

\* The string _try_youtube_api returns once it has found a ko or en caption track.
YoutubeApiText(title, seconds) ==
    "yeongsang jemok: " \o title \o "\nyeongsang giri: " \o ToString(seconds)
        \o "cho\n\njoesonghabnida. YouTube APIroneun jamak naeyong-eul gajyeool su eobs-seubnida."

\* The string strategy 4 returns once it has read the page title.
SeleniumText(title) ==
    "yeongsang jemok: " \o title
        \o "\n\njoesonghabnida. Seleniumeul tonghae yeongsang jemokman hwag-inhal su iss-eossseubnida."

\* The string strategy 5 returns once a metadata probe gave a title.
AlternativeTitleText(title) ==
    "yeongsang jemok: " \o title
        \o "\n\njoesonghabnida. yeongsang jemokman hwag-inhal su iss-eossseubnida."

\* The string strategy 5 returns when every probe failed.
AlternativePlaceholder(video_id) ==
    "joesonghabnida. yeongsang ID " \o video_id \o "ui jamag-eul chuchulhal su eobs-seubnida."

\* The message of the exception raised when no strategy gave a result.
AllMethodsFailed == "modeun chuchul bangbeob-i silpaehaessseubnida."

Titles == {"Never Gonna Give You Up"}

\* The text of a caption track on the platform.
CaptionText(language) == "jamak (" \o language \o "): annyeonghaseyo yeoreobun"

Track(language) == [language |-> language, text |-> CaptionText(language)]

\* What the platform answers to the two queries of _try_youtube_api: a
\* request raises, a request answers with a status other than 200, the video
\* is unknown, or the video's caption tracks are listed (none at all when
\* the video has no captions).
CaptionQueries ==
    { [kind |-> "error",  msg |-> "403 Client Error: Forbidden for url (quotaExceeded)"],
      [kind |-> "status", code |-> 403],
      [kind |-> "no_video"] }
    \cup { [kind |-> "tracks", title |-> t, seconds |-> 212, items |-> tracks] :
             t \in Titles,
             tracks \in { <<>>, <<Track("fr")>>, <<Track("ko")>>,
                          <<Track("fr"), Track("en")>>, <<Track("en"), Track("ko")>> } }

\* The query the chain has not made.
NoQuery == [kind |-> "none"]

\* _try_youtube_api: every exception is caught and None is returned; a notice
\* with the title and the length is returned once a ko or en track is found.
_try_youtube_api(q) ==
    IF q.kind # "tracks" THEN ReturnNone
    ELSE IF Len(q.items) = 0 THEN ReturnNone
    ELSE IF \E i \in 1..Len(q.items) : q.items[i].language \in {"ko", "en"}
         THEN Return(YoutubeApiText(q.title, q.seconds))
         ELSE ReturnNone

YoutubeApiOutcomes == {_try_youtube_api(q) : q \in CaptionQueries}

\* The raw outputs of the speech-to-text call.
WhisperTranscripts == {"annyeonghaseyo yeoreobun \n", " \n"}

\* The errors ydl.download raises.
DownloadErrors ==
    { "ERROR: Sign in to confirm you are not a bot",
      "Connection timed out" }

DownloadOk == "<downloaded>"

\* What client.audio.transcriptions.create does when it is called.
SpeechToText == {Return(t) : t \in WhisperTranscripts} \cup {Raise("Connection error.")}

\* What happens during one call of strategy 2 or 3 that downloads from n URL
\* forms: what each download does if it is made, whether a download that
\* succeeded left an audio file in the temporary directory, and what the
\* speech-to-text call does if it is made.
DownloadScenarios(n) ==
    [downloads : [1..n -> DownloadErrors \cup {DownloadOk}],
     audio : BOOLEAN, stt : SpeechToText]

\* The code after the download, the same in both strategies: the audio file
\* is looked for, the credential is read, the audio is transcribed.
transcribe(openai_key, d) ==
    IF ~d.audio THEN Raise("odio pail-eul chaj-eul su eobs-seubnida.")
    ELSE IF ~openai_key THEN Raise("OPENAI_API_KEY not set")
    ELSE IF d.stt.kind = "raise" THEN d.stt
    ELSE Return(strip(d.stt.val))

\* The keywords strategy 2 looks for in the lower-cased download error (the
\* Korean ones, "jeobgeun jehan" and "jehan", in transliteration).
ytdlp_keywords ==
    << "blocked", "forbidden", "access denied", "rate limit",
       "quota exceeded", "daily limit", "hourly limit",
       "client error", "youtube", "transcript", "retrieve",
       "could not retrieve", "transcript for the video",
       "jeobgeun jehan", "jehan", "restricted", "limit", "bot" >>

ytdlpRestricted(error_msg) ==
    \E k \in 1..Len(ytdlp_keywords) : Contains(ytdlp_keywords[k], lower(error_msg))

YtdlpRestricted == [m \in DownloadErrors |-> ytdlpRestricted(m)]

\* The try block of _download_audio_with_ytdlp: the download error is raised
\* again under one of two fixed messages.
ytdlpBody(openai_key, d) ==
    IF d.downloads[1] # DownloadOk
    THEN IF YtdlpRestricted[d.downloads[1]]
         THEN Raise("YouTube jeobgeun-i jehandoeeossseubnida. YouTube-ui bot gamji")
         ELSE Raise("odio daunlodeu jung oryuga balsaenghaessseubnida: " \o d.downloads[1])
    ELSE transcribe(openai_key, d)

\* The URL forms strategy 3 downloads from: the canonical one, then the
\* alternative_urls.
stealth_urls(video_id) ==
    << "https://www.youtube.com/watch?v=" \o video_id,
       "https://m.youtube.com/watch?v=" \o video_id,
       "https://youtu.be/" \o video_id,
       "https://www.youtube.com/embed/" \o video_id >>

NStealthUrls == 4

\* The error of the last alternate is raised.
stealthDownloadLastError(d) ==
    IF \E i \in 1..NStealthUrls : d.downloads[i] = DownloadOk
    THEN [tried |-> CHOOSE i \in 1..NStealthUrls :
                       /\ d.downloads[i] = DownloadOk
                       /\ \A j \in 1..(i - 1) : d.downloads[j] # DownloadOk,
          err |-> NoError]
    ELSE [tried |-> NStealthUrls, err |-> d.downloads[NStealthUrls]]

\* The downloads of strategy 3: the canonical URL, on its failure the
\* alternates in order up to the first that succeeds ("break"), and
\* "raise e", the canonical URL's error, when none did.  tried is the number
\* of URL forms a download was made from.
stealthDownload(d) ==
    IF \E i \in 1..NStealthUrls : d.downloads[i] = DownloadOk
    THEN [tried |-> CHOOSE i \in 1..NStealthUrls :
                       /\ d.downloads[i] = DownloadOk
                       /\ \A j \in 1..(i - 1) : d.downloads[j] # DownloadOk,
          err |-> NoError]
    ELSE [tried |-> NStealthUrls, err |-> d.downloads[1]]

\* The try block of _download_audio_with_advanced_stealth.
stealthBody(openai_key, d) ==
    IF stealthDownload(d).err # NoError
    THEN Raise(stealthDownload(d).err)
    ELSE transcribe(openai_key, d)

\* The directory is removed only when the try block has returned.
rmtreeOnReturn(dirs, temp_dir, o) ==
    IF o.kind = "raise" THEN dirs ELSE dirs \ {temp_dir}

\* finally: shutil.rmtree(temp_dir, ignore_errors=True), on a file system
\* that lets the process remove what it has created.
rmtree(dirs, temp_dir, o) == dirs \ {temp_dir}

\* What strategies 2 and 3 return or raise, computed once.
YtdlpOutcomesOf ==
    [k \in BOOLEAN |-> {ytdlpBody(k, d) : d \in DownloadScenarios(1)}]

StealthOutcomesOf ==
    [k \in BOOLEAN |-> {stealthBody(k, d) : d \in DownloadScenarios(NStealthUrls)}]

YtdlpOutcomes(openai_key) == YtdlpOutcomesOf[openai_key]

StealthOutcomes(openai_key) == StealthOutcomesOf[openai_key]

\* One call of strategy 2 or 3, step by step: tempfile.mkdtemp(), the try
\* block, the finally clause.  dirs is the set of the directories under the
\* temporary root.
OtherDir == "/tmp/other"

TempDir(k) == "/tmp/tmp" \o ToString(k)

NoDownload == [downloads |-> <<>>]

InitDownload ==
    /\ env \in [YOUTUBE_API_KEY : {FALSE}, OPENAI_API_KEY : BOOLEAN]
    /\ \E k \in {2, 3}, dirs \in {{}, {OtherDir}} :
          ch = [pc |-> "mkdtemp", strategy |-> k, video_id |-> "dQw4w9WgXcQ",
                dirs |-> dirs, dirs0 |-> dirs, made |-> 0,
                d |-> NoDownload, urls |-> <<>>, outcome |-> NotRun]

\* temp_dir = tempfile.mkdtemp()
Mkdtemp ==
    /\ ch.pc = "mkdtemp"
    /\ ch' = [ch EXCEPT !.pc = "try", !.dirs = @ \cup {TempDir(ch.strategy)},
                         !.made = @ + 1]
    /\ UNCHANGED <<bo, script, CACHE, th, client, env>>

\* The try block of _download_audio_with_ytdlp.
YtdlpTry ==
    /\ ch.pc = "try" /\ ch.strategy = 2
    /\ \E d \in DownloadScenarios(1) :
          ch' = [ch EXCEPT !.pc = "finally", !.d = d,
                           !.urls = SubSeq(stealth_urls(ch.video_id), 1, 1),
                           !.outcome = ytdlpBody(env.OPENAI_API_KEY, d)]
    /\ UNCHANGED <<bo, script, CACHE, th, client, env>>

\* The try block of _download_audio_with_advanced_stealth.
StealthTry ==
    /\ ch.pc = "try" /\ ch.strategy = 3
    /\ \E d \in DownloadScenarios(NStealthUrls) :
          ch' = [ch EXCEPT !.pc = "finally", !.d = d,
                           !.urls = SubSeq(stealth_urls(ch.video_id), 1,
                                           stealthDownload(d).tried),
                           !.outcome = stealthBody(env.OPENAI_API_KEY, d)]
    /\ UNCHANGED <<bo, script, CACHE, th, client, env>>

\* finally: shutil.rmtree(temp_dir, ignore_errors=True); then the return or
\* the raise of the try block.
Rmtree ==
    /\ ch.pc = "finally"
    /\ ch' = [ch EXCEPT !.pc = IF ch.outcome.kind = "raise" THEN "raised" ELSE "returned",
                         !.dirs = rmtree(@, TempDir(ch.strategy), ch.outcome)]
    /\ UNCHANGED <<bo, script, CACHE, th, client, env>>

\* What the browser automation does during one call of strategy 4: the step
\* that fails (the import of the capability, the start of the session, the
\* page visit, the title lookup, or none), and what driver.quit() does once a
\* session has started.
BrowserScenarios ==
    { [fails |-> f, quit |-> "not called", title |-> t] :
        f \in {"import", "session"}, t \in Titles }
    \cup { [fails |-> f, quit |-> "ok", title |-> t] :
              f \in {"page", "title", "none"}, t \in Titles }
    \cup { [fails |-> "none", quit |-> "raise", title |-> t] : t \in Titles }

\* The scenario of a chain that has not called strategy 4.
NoBrowser == [fails |-> "not called", quit |-> "not called", title |-> ""]

\* The inner try block of a started session: an error of the page visit
\* leaves the block, an error of the title lookup is caught and gives None.
seleniumSession(b) ==
    CASE b.fails = "page"  -> Raise("TimeoutException: page load")
      [] b.fails = "title" -> ReturnNone
      [] OTHER             -> Return(SeleniumText(b.title))

\* finally: driver.quit(); its error replaces the block's outcome.
seleniumQuit(b, o) ==
    IF b.quit = "raise" THEN Raise("WebDriverException: quit") ELSE o

\* The outer try block: the ImportError is caught and gives None, an error
\* of uc.Chrome leaves the block, then the session and its finally.
seleniumBody(b) ==
    CASE b.fails = "import"  -> ReturnNone
      [] b.fails = "session" -> Raise("SessionNotCreatedException")
      [] OTHER               -> seleniumQuit(b, seleniumSession(b))

\* The outer "except Exception" is missing.
_download_audio_with_selenium_uncaught(b) == seleniumBody(b)

\* _download_audio_with_selenium: the outer "except Exception" returns None.
_download_audio_with_selenium(b) ==
    IF seleniumBody(b).kind = "raise" THEN ReturnNone ELSE seleniumBody(b)

SeleniumOutcomes == {_download_audio_with_selenium(b) : b \in BrowserScenarios}

\* The client identities and the URL forms strategy 5 probes with.
user_agents ==
    << "Chrome/120 Windows", "Chrome/120 Macintosh", "Chrome/120 Linux",
       "Firefox/121 Windows", "Firefox/121 Macintosh" >>

alternative_urls(video_id) ==
    << "https://m.youtube.com/watch?v=" \o video_id,
       "https://youtu.be/" \o video_id,
       "https://www.youtube.com/embed/" \o video_id,
       "https://youtube.com/watch?v=" \o video_id,
       "https://www.youtube.com/watch?v=" \o video_id >>

\* The number of (URL form, client identity) pairs.
NProbes == Len(alternative_urls("")) * Len(user_agents)

\* What the metadata probes do, by the order in which they are made: the
\* probe gives a title, gives none, or raises.  A plan has a first probe that
\* gives a title (or none that does) and one way of failing before it.
ProbePlans ==
    { [i \in 1..NProbes |-> IF i = first THEN "title" ELSE fails] :
        first \in 0..NProbes, fails \in {"none", "raise"} }

\* The two loops of _try_alternative_extraction from URL form u and client
\* identity a on, after n probes: the first title is returned at once, a
\* probe without a title or with an error goes on to the next pair, and the
\* placeholder is returned when the pairs are exhausted.
RECURSIVE probeLoop(_, _, _, _, _)
probeLoop(video_id, plan, u, a, n) ==
    IF u > Len(alternative_urls(video_id))
    THEN [outcome |-> Return(AlternativePlaceholder(video_id)), probes |-> n]
    ELSE IF a > Len(user_agents)
    THEN probeLoop(video_id, plan, u + 1, 1, n)
    ELSE IF plan[n + 1] = "title"
    THEN [outcome |-> Return(AlternativeTitleText(CHOOSE t \in Titles : TRUE)),
          probes |-> n + 1]
    ELSE probeLoop(video_id, plan, u, a + 1, n + 1)

\* _try_alternative_extraction: the string it returns and the number of
\* probes it made.
_try_alternative_extraction(video_id, plan) == probeLoop(video_id, plan, 1, 1, 0)

\* _try_alternative_extraction returns a string on every path.
AlternativeOutcomes(video_id) ==
    {_try_alternative_extraction(video_id, plan).outcome : plan \in ProbePlans}

\* Strategies 2 and 3 tag their text with the language they transcribe in.
SourceTagLanguage == <<"youtube_api", "ko", "ko", "selenium", "alternative">>

SourceTag == <<"youtube_api", "whisper", "advanced_stealth", "selenium", "alternative">>

NStrategies == Len(SourceTag)

\* Strategy 5's string is taken whenever it is not empty.
acceptsAnyNonEmpty(k, o) ==
    CASE k \in {1, 4} -> Truthy(o)
      [] k \in {2, 3} -> o.kind # "raise"
      [] OTHER        -> Truthy(o)

\* An ACCESS_RESTRICTED error of strategy 2 or 3 is not caught.
acceptsRestrictedError(k, o) ==
    CASE k \in {1, 4} -> Truthy(o)
      [] k \in {2, 3} -> o.kind # "raise" \/ ErrorClass(o.val) = "ACCESS_RESTRICTED"
      [] OTHER        -> Truthy(o) /\ Contains(TitleMarker, o.val)

\* Whether the chain returns with strategy k's outcome o: strategies 1 and 4
\* behind "if text:", strategies 2 and 3 whenever the call returns, strategy 5
\* behind "if text and marker in text:".
accepts(k, o) ==
    CASE k \in {1, 4} -> Truthy(o)
      [] k \in {2, 3} -> o.kind # "raise"
      [] OTHER        -> Truthy(o) /\ Contains(TitleMarker, o.val)

\* An error raised by a strategy leaves the chain instead of being caught.
chainStepPropagates(c, k, o) ==
    LET d == [c EXCEPT !.out[k] = o,
                       !.invoked = IF o = NotRun THEN @ ELSE Append(@, k)]
    IN  IF o.kind = "raise"
        THEN [d EXCEPT !.pc = "raised", !.err = o.val]
        ELSE IF o # NotRun /\ accepts(k, o)
        THEN [d EXCEPT !.pc = "returned", !.text = o.val, !.lang_code = SourceTag[k]]
        ELSE IF k < NStrategies
             THEN [d EXCEPT !.pc = "strategy", !.k = k + 1]
             ELSE [d EXCEPT !.pc = "raised", !.err = AllMethodsFailed]

\* A strategy that raised is tried again.
chainStepRetries(c, k, o) ==
    LET d == [c EXCEPT !.out[k] = o,
                       !.invoked = IF o = NotRun THEN @ ELSE Append(@, k)]
    IN  IF o # NotRun /\ accepts(k, o)
        THEN [d EXCEPT !.pc = "returned", !.text = o.val, !.lang_code = SourceTag[k]]
        ELSE IF o.kind = "raise" /\ Len(d.invoked) < 2 * NStrategies
             THEN [d EXCEPT !.pc = "strategy", !.k = k]
        ELSE IF k < NStrategies
             THEN [d EXCEPT !.pc = "strategy", !.k = k + 1]
             ELSE [d EXCEPT !.pc = "raised", !.err = AllMethodsFailed]

\* The chain after strategy k's try block ended with outcome o (NotRun: the
\* block made no call).
chainStep(c, k, o) ==
    LET d == [c EXCEPT !.out[k] = o,
                       !.invoked = IF o = NotRun THEN @ ELSE Append(@, k)]
    IN  IF o # NotRun /\ accepts(k, o)
        THEN [d EXCEPT !.pc = "returned", !.text = o.val, !.lang_code = SourceTag[k]]
        ELSE IF k < NStrategies
             THEN [d EXCEPT !.pc = "strategy", !.k = k + 1]
             ELSE [d EXCEPT !.pc = "raised", !.err = AllMethodsFailed]

chainStart(video_id) ==
    [pc |-> "strategy", k |-> 1, video_id |-> video_id,
     out |-> [j \in 1..NStrategies |-> NotRun], invoked |-> <<>>,
     query |-> NoQuery, browser |-> NoBrowser, probes |-> 0, text |-> "", lang_code |-> "", err |-> NoError]

Environments == [YOUTUBE_API_KEY : BOOLEAN, OPENAI_API_KEY : BOOLEAN]

InitChain ==
    /\ env \in Environments
    /\ \E v \in ChainVideoIds : ch = chainStart(v)

\* Step 1: the official API, called only when YOUTUBE_API_KEY is set.
TryYoutubeApi ==
    /\ ch.pc = "strategy" /\ ch.k = 1
    /\ IF env.YOUTUBE_API_KEY
       THEN \E q \in CaptionQueries :
               ch' = [chainStep(ch, 1, _try_youtube_api(q)) EXCEPT !.query = q]
       ELSE ch' = chainStep(ch, 1, NotRun)
    /\ UNCHANGED <<bo, script, CACHE, th, client, env>>

\* Step 2: plain download and speech-to-text.
TryWhisper ==
    /\ ch.pc = "strategy" /\ ch.k = 2
    /\ \E o \in YtdlpOutcomes(env.OPENAI_API_KEY) : ch' = chainStep(ch, 2, o)
    /\ UNCHANGED <<bo, script, CACHE, th, client, env>>

\* Step 3: hardened download and speech-to-text.
TryAdvancedStealth ==
    /\ ch.pc = "strategy" /\ ch.k = 3
    /\ \E o \in StealthOutcomes(env.OPENAI_API_KEY) : ch' = chainStep(ch, 3, o)
    /\ UNCHANGED <<bo, script, CACHE, th, client, env>>

\* Step 4: browser automation.
TrySelenium ==
    /\ ch.pc = "strategy" /\ ch.k = 4
    /\ \E b \in BrowserScenarios :
          ch' = [chainStep(ch, 4, _download_audio_with_selenium(b)) EXCEPT !.browser = b]
    /\ UNCHANGED <<bo, script, CACHE, th, client, env>>

\* Step 5: metadata only, and the final raise when it is not taken.
TryAlternative ==
    /\ ch.pc = "strategy" /\ ch.k = 5
    /\ \E plan \in ProbePlans :
          LET r == _try_alternative_extraction(ch.video_id, plan)
          IN  ch' = [chainStep(ch, 5, r.outcome) EXCEPT !.probes = r.probes]
    /\ UNCHANGED <<bo, script, CACHE, th, client, env>>

-----------------------------------------------------------------------------
(* The result cache: CACHE, get_cache_key, get_cached_result,               *)
(* set_cached_result.  A Python dict keeps its items in insertion order;    *)
(* CACHE is the sequence of its items.                                      *)

MaxCache == 100

\* Optional values: None is the empty sequence.
None    == <<>>
Some(v) == <<v>>

VideoId(n) == "v" \o ToString(n)

get_cache_key(video_id) == "video_" \o video_id

\* dict primitives
dictHas(d, k) == \E i \in 1..Len(d) : d[i].key = k

dictIndex(d, k) == CHOOSE i \in 1..Len(d) : d[i].key = k

\* d.get(k)
dictGet(d, k) == IF dictHas(d, k) THEN Some(d[dictIndex(d, k)].value) ELSE None

\* A present key is taken out and put back last.
dictSetMoveToEnd(d, k, v) ==
    IF dictHas(d, k)
    THEN Append(SubSeq(d, 1, dictIndex(d, k) - 1) \o SubSeq(d, dictIndex(d, k) + 1, Len(d)),
                [key |-> k, value |-> v])
    ELSE Append(d, [key |-> k, value |-> v])

\* d[k] = v: a present key keeps its place, a new key goes last.
dictSet(d, k, v) ==
    IF dictHas(d, k)
    THEN [d EXCEPT ![dictIndex(d, k)].value = v]
    ELSE Append(d, [key |-> k, value |-> v])

\* del d[k], for a present key
dictDel(d, k) ==
    LET i == dictIndex(d, k)
    IN  SubSeq(d, 1, i - 1) \o SubSeq(d, i + 1, Len(d))

\* next(iter(d)), for a dict that is not empty
dictFirstKey(d) == d[1].key

dictKeys(d) == {d[i].key : i \in 1..Len(d)}

\* The lookup uses the video id itself, not the cache key made from it.
get_cached_result_raw_id(d, video_id) == dictGet(d, video_id)

get_cached_result(d, video_id) == dictGet(d, get_cache_key(video_id))

\* The newest entry is removed instead of the oldest.
set_cached_result_evict_newest(d, video_id, result) ==
    LET d1 == dictSet(d, get_cache_key(video_id), result)
    IN  IF Len(d1) > MaxCache THEN dictDel(d1, d1[Len(d1)].key) ELSE d1

\* set_cached_result run from its first line to its last with no other
\* thread in between.
set_cached_result(d, video_id, result) ==
    LET d1 == dictSet(d, get_cache_key(video_id), result)
    IN  IF Len(d1) > MaxCache THEN dictDel(d1, dictFirstKey(d1)) ELSE d1

\* The SummaryResult the n-th put stores.
SummaryOf(n) ==
    [summary |-> "summary " \o ToString(n), language |-> "whisper",
     method |-> "Whisper + AI", duration |-> 0, estimated_time |-> 60]

\* The cache after ids v1 .. vn were put in this order, one put at a time,
\* into an empty cache (n <= MaxCache).
Filled(n) == [i \in 1..n |-> [key |-> get_cache_key(VideoId(i)), value |-> SummaryOf(i)]]

MaxPuts == 103
MaxOverwrites == 1

InitClient ==
    /\ CACHE = <<>>
    /\ client = [puts |-> 0, fresh |-> 0, overwrites |-> 0,
                 op |-> "none", id |-> "", ret |-> None]

\* The video id of the i-th entry: its key without the "video_" prefix.
EntryId(i) == SubSeq(CACHE[i].key, Len("video_") + 1, Len(CACHE[i].key))

\* The ids of the oldest and of the newest entry.
EndIds == IF Len(CACHE) = 0 THEN {} ELSE {EntryId(1), EntryId(Len(CACHE))}

\* The cache sizes at which a put is also tried with an id that is in the
\* cache: nearly empty, one short of full, and full.
OverwriteSizes == {1, 2, MaxCache - 1, MaxCache}

\* A put is tried with the next id never put before, or with the id of the
\* oldest or of the newest entry.
ClientPut ==
    /\ client.puts < MaxPuts
    /\ \/ /\ CACHE' = set_cached_result(CACHE, VideoId(client.fresh + 1),
                                         SummaryOf(client.puts + 1))
          /\ client' = [client EXCEPT !.puts = @ + 1, !.fresh = @ + 1, !.op = "put",
                                      !.id = VideoId(client.fresh + 1), !.ret = None]
       \/ /\ client.overwrites < MaxOverwrites
          /\ Len(CACHE) \in OverwriteSizes
          /\ \E id \in EndIds :
                /\ CACHE' = set_cached_result(CACHE, id, SummaryOf(client.puts + 1))
                /\ client' = [client EXCEPT !.puts = @ + 1, !.overwrites = @ + 1,
                                            !.op = "put", !.id = id, !.ret = None]
    /\ UNCHANGED <<bo, script, ch, th, env>>

\* A get is tried with the first id ever put, an id never put, and the ids
\* of the oldest and of the newest entry.
GetIds == {VideoId(1), VideoId(client.fresh + 1)} \cup EndIds

ClientGet ==
    /\ \E id \in GetIds :
          client' = [client EXCEPT !.op = "get", !.id = id,
                                   !.ret = get_cached_result(CACHE, id)]
    /\ UNCHANGED <<bo, script, ch, CACHE, th, env>>

-----------------------------------------------------------------------------
(* summarize_by_id, one activation per request.  The endpoint is a plain    *)
(* "def", which the server runs on a pool of threads: requests interleave   *)
(* between any two operations on CACHE.                                     *)

\* A duration of 0 (unknown) is treated like every duration up to 300.
estimate_processing_time_no_default(duration_seconds) ==
    IF duration_seconds <= 300 THEN 48
    ELSE IF duration_seconds >= 900 THEN 70
    ELSE ((70 - 48) * duration_seconds + (48 * (900 - 300) - (70 - 48) * 300)) \div (900 - 300)

\* estimate_processing_time.  The slope a = (y2 - y1) / (x2 - x1) is kept as
\* the fraction aNum / aDen, and b = y1 - a * x1 as bNum / aDen; int() of the
\* positive a * duration + b is the integer quotient.  (The source computes
\* a and b in binary floating point; for every duration from 301 to 899 its
\* result has the same integer part as the exact value.)
estimate_processing_time(duration_seconds) ==
    LET x1   == 300
        y1   == 48
        x2   == 900
        y2   == 70
        aNum == y2 - y1
        aDen == x2 - x1
        bNum == y1 * aDen - aNum * x1
    IN  IF duration_seconds = 0 THEN 60
        ELSE IF duration_seconds <= x1 THEN y1
        ELSE IF duration_seconds >= x2 THEN y2
        ELSE (aNum * duration_seconds + bNum) \div aDen

\* summarize_with_openai: the input length guard.
max_chars == 16000
head_chars == 12000
tail_chars == 3000

\* The text is cut as soon as it holds max_chars characters, and the head
\* and the tail are taken from max_chars on.
truncate_from_limit(transcript_text) ==
    IF Len(transcript_text) >= max_chars
    THEN SubSeq(transcript_text, 1, head_chars) \o "\n...\n"
            \o SubSeq(transcript_text, max_chars - tail_chars + 1, max_chars)
    ELSE transcript_text

\* transcript_text[:12000] + "\n...\n" + transcript_text[-3000:] when the text
\* is longer than max_chars.
truncate(transcript_text) ==
    IF Len(transcript_text) > max_chars
    THEN SubSeq(transcript_text, 1, head_chars) \o "\n...\n"
            \o SubSeq(transcript_text, Len(transcript_text) - tail_chars + 1,
                      Len(transcript_text))
    ELSE transcript_text

\* The two user prompt templates: the one for a Korean transcript, and the one
\* that asks for a translation first.
UserPromptKo == "daeum jamag-eul wi hyeongsig-e majchwo hangug-eoro gujohwa yoyaghae juseyo.\n\njamak:\n"

UserPromptTranslate == "daeum jamag-i yeong-eoigeona honhab-eoil su issseubnida. beon-yeoghan dwi gujohwa yoyaghae juseyo.\n\njamak:\n"

\* The template is chosen by the source tag "whisper" as well.
user_prompt_template_by_source(lang_code) ==
    IF lang_code \in {"ko", "whisper"} THEN UserPromptKo ELSE UserPromptTranslate

\* if lang_code == "ko": ... else: ...
user_prompt_template(lang_code) ==
    IF lang_code = "ko" THEN UserPromptKo ELSE UserPromptTranslate

\* The credential test is left out.
summarize_with_openai_unguarded(e, transcript_text, lang_code, completion) ==
    LET user_prompt == user_prompt_template(lang_code) \o truncate(transcript_text)
    IN  IF completion.kind = "raise"
        THEN [kind |-> "Exception", val |-> completion.val,
              called |-> TRUE, user_prompt |-> user_prompt]
        ELSE [kind |-> "return", val |-> strip(completion.val),
              called |-> TRUE, user_prompt |-> user_prompt]

\* summarize_with_openai, given what chat.completions.create does when it is
\* called: RuntimeError without the credential, the error of the call, or the
\* stripped completion.
summarize_with_openai(e, transcript_text, lang_code, completion) ==
    IF ~e.OPENAI_API_KEY
    THEN [kind |-> "RuntimeError", val |-> "OPENAI_API_KEY not set",
          called |-> FALSE, user_prompt |-> ""]
    ELSE LET user_prompt == user_prompt_template(lang_code) \o truncate(transcript_text)
         IN  IF completion.kind = "raise"
             THEN [kind |-> "Exception", val |-> completion.val,
                   called |-> TRUE, user_prompt |-> user_prompt]
             ELSE [kind |-> "return", val |-> strip(completion.val),
                   called |-> TRUE, user_prompt |-> user_prompt]

\* What chat.completions.create does for request t.
Completions(t) ==
    { Return("summary of request " \o ToString(t) \o "\n"), Raise("Connection error.") }

\* What get_video_duration returns for the requests' videos, in seconds.
Durations == {600}

\* fetch_transcript_text run to its end, strategy k ending as outs[k].
RECURSIVE chainRun(_, _)
chainRun(c, outs) ==
    IF c.pc # "strategy" THEN c ELSE chainRun(chainStep(c, c.k, outs[c.k]), outs)

\* What the five strategies do during one request: the runs the requests
\* are tried with.
Scenarios(e, video_id) ==
    LET first == IF e.YOUTUBE_API_KEY THEN ReturnNone ELSE NotRun
        fails == Raise("odio pail-eul chaj-eul su eobs-seubnida.")
    IN  { <<first, fails, fails, ReturnNone, Return(AlternativePlaceholder(video_id))>>,
          <<first, fails, fails, ReturnNone, Return(AlternativeTitleText("T"))>> }
        \cup (IF e.OPENAI_API_KEY
              THEN { <<first, Return("annyeonghaseyo"), NotRun, NotRun, NotRun>> }
              ELSE {})

NRequests == 2

Requests == 1..NRequests

\* The ids the requests ask for, by number: v1 is the oldest entry of a cache
\* that is not empty, the other two are in none of the caches below.
RequestIds == {1, MaxCache + 1, MaxCache + 2}

\* The environments of the requests: the generative credential set or not.
\* (YOUTUBE_API_KEY only decides whether strategy 1 makes its call.)
RequestEnvironments == {e \in Environments : ~e.YOUTUBE_API_KEY}

\* The caches the requests start from: each is the cache after that many
\* earlier requests for distinct ids.
Prefills == {0, MaxCache - 1, MaxCache}

threadStart(video_id) ==
    [pc |-> "lookup", video_id |-> video_id, calls |-> <<>>,
     duration |-> 0, estimated_time |-> 0, text |-> "", lang_code |-> "",
     user_prompt |-> "", result |-> None, it_used |-> 0, oldest_key |-> "",
     status |-> 0, ret |-> None, detail |-> ""]

\* Requests are interchangeable: they are numbered by the id they ask for.
InitRequests ==
    /\ env \in RequestEnvironments
    /\ \E n \in Prefills : CACHE = Filled(n)
    /\ \E ids \in [Requests -> RequestIds] :
          /\ \A t, u \in Requests : t <= u => ids[t] <= ids[u]
          /\ th = [t \in Requests |-> threadStart(VideoId(ids[t]))]

\* return cached_result / return result
Respond(r, value) == [r EXCEPT !.pc = "done", !.status = 200, !.ret = Some(value)]

\* The handler storing the error it answers with.
FailThenStore(r, code, detail) ==
    [r EXCEPT !.pc = "insert", !.status = code, !.detail = detail,
              !.result = Some([error |-> detail])]

\* raise HTTPException(status_code, detail)
Fail(r, code, detail) == [r EXCEPT !.pc = "done", !.status = code, !.detail = detail]

\* an exception no handler catches
Crash(r, detail) == [r EXCEPT !.pc = "crashed", !.detail = detail]

\* cached_result = get_cached_result(video_id); if cached_result: return it
Lookup(t) ==
    /\ th[t].pc = "lookup"
    /\ LET cached_result == get_cached_result(CACHE, th[t].video_id)
       IN  th' = [th EXCEPT ![t] =
                    IF cached_result # None
                    THEN Respond(@, cached_result[1])
                    ELSE [@ EXCEPT !.pc = "work"]]
    /\ UNCHANGED <<bo, script, ch, CACHE, client, env>>

\* The handler from the duration probe to the result dict: get_video_duration,
\* estimate_processing_time, fetch_transcript_text and its except clauses,
\* summarize_with_openai and its except clauses.  None of it reads or writes
\* CACHE.  The summary a request gets is named after the request.
WorkWith(t, durations, scenarios) ==
    /\ th[t].pc = "work"
    /\ \E d \in durations, outs \in scenarios, completion \in Completions(t) :
          LET c  == chainRun(chainStart(th[t].video_id), outs)
              r1 == [th[t] EXCEPT !.duration = d,
                                  !.estimated_time = estimate_processing_time(d),
                                  !.calls = @ \o <<"get_video_duration", "fetch_transcript_text">>]
              r2 == [r1 EXCEPT !.text = c.text, !.lang_code = c.lang_code]
              a  == summarize_with_openai(env, c.text, c.lang_code, completion)
              r3 == IF a.called
                    THEN [r2 EXCEPT !.calls = Append(@, "chat.completions.create"),
                                    !.user_prompt = a.user_prompt]
                    ELSE r2
          IN  th' = [th EXCEPT ![t] =
                       IF c.pc # "returned"
                       THEN Fail(r1, 500, "jamak cheori jung oryu: " \o c.err)
                       ELSE IF a.kind = "RuntimeError"
                       THEN Fail(r3, 500, a.val)
                       ELSE IF a.kind = "Exception"
                       THEN Fail(r3, 500, "yoyak jung oryu: " \o a.val)
                       ELSE [r3 EXCEPT !.pc = "insert", !.result = Some(
                               [summary |-> a.val,
                                language |-> r3.lang_code,
                                method |-> "Whisper + AI",
                                duration |-> r3.duration,
                                estimated_time |-> r3.estimated_time])]]
    /\ UNCHANGED <<bo, script, ch, CACHE, client, env>>

WorkOn(t, durations) == WorkWith(t, durations, Scenarios(env, th[t].video_id))

\* The handler's work on a video of one of the Durations.
Work(t) == WorkOn(t, Durations)

\* The handler's work on a video of any duration up to MaxDuration seconds.
MaxDuration == 1200

AllDurations == 0..MaxDuration

WorkAnyDuration(t) == WorkOn(t, AllDurations)

\* One request for an uncached id on a full cache.
InitEstimate ==
    /\ env \in RequestEnvironments
    /\ CACHE = Filled(MaxCache)
    /\ th = <<threadStart(VideoId(MaxCache + 1))>>

\* set_cached_result: CACHE[cache_key] = result
PutInsert(t) ==
    /\ th[t].pc = "insert"
    /\ CACHE' = dictSet(CACHE, get_cache_key(th[t].video_id), th[t].result[1])
    /\ th' = [th EXCEPT ![t].pc = "check"]
    /\ UNCHANGED <<bo, script, ch, client, env>>

\* set_cached_result: if len(CACHE) > 100; without eviction the handler returns result
PutCheck(t) ==
    /\ th[t].pc = "check"
    /\ th' = [th EXCEPT ![t] =
                 IF Len(CACHE) > MaxCache
                 THEN [@ EXCEPT !.pc = "iter"]
                 ELSE Respond(@, @.result[1])]
    /\ UNCHANGED <<bo, script, ch, CACHE, client, env>>

\* set_cached_result: iter(CACHE); the iterator remembers the dict's size
PutIter(t) ==
    /\ th[t].pc = "iter"
    /\ th' = [th EXCEPT ![t] = [@ EXCEPT !.pc = "next", !.it_used = Len(CACHE)]]
    /\ UNCHANGED <<bo, script, ch, CACHE, client, env>>

\* set_cached_result: oldest_key = next(...); the iterator raises RuntimeError
\* when the dict's size is no longer the one it remembers
PutNext(t) ==
    /\ th[t].pc = "next"
    /\ th' = [th EXCEPT ![t] =
                 IF Len(CACHE) # @.it_used
                 THEN Crash(@, "RuntimeError: dictionary changed size during iteration")
                 ELSE [@ EXCEPT !.pc = "del", !.oldest_key = dictFirstKey(CACHE)]]
    /\ UNCHANGED <<bo, script, ch, CACHE, client, env>>

\* set_cached_result: del CACHE[oldest_key], KeyError when the key is gone;
\* then the handler returns result
PutDel(t) ==
    /\ th[t].pc = "del"
    /\ IF dictHas(CACHE, th[t].oldest_key)
       THEN /\ CACHE' = dictDel(CACHE, th[t].oldest_key)
            /\ th' = [th EXCEPT ![t] = Respond(@, @.result[1])]
       ELSE /\ CACHE' = CACHE
            /\ th' = [th EXCEPT ![t] = Crash(@, "KeyError: " \o @.oldest_key)]
    /\ UNCHANGED <<bo, script, ch, client, env>>

-----------------------------------------------------------------------------
(* The resolver, extract_video_id, with the parts of urllib.parse it uses:   *)
(* urlparse and parse_qs, computed on the locator's characters.             *)

\* The position of the first character of s that is in the set cs, 0 if none
\* (str.find).
FindFirst(cs, s) ==
    IF \E i \in 1..Len(s) : SubSeq(s, i, i) \in cs
    THEN CHOOSE i \in 1..Len(s) :
            /\ SubSeq(s, i, i) \in cs
            /\ \A j \in 1..(i - 1) : SubSeq(s, j, j) \notin cs
    ELSE 0

\* The position of the last "/" of s, 0 if none (str.rfind).
FindLastSlash(s) ==
    IF \E i \in 1..Len(s) : SubSeq(s, i, i) = "/"
    THEN CHOOSE i \in 1..Len(s) :
            /\ SubSeq(s, i, i) = "/"
            /\ \A j \in (i + 1)..Len(s) : SubSeq(s, j, j) # "/"
    ELSE 0

Before(s, i) == SubSeq(s, 1, i - 1)
After(s, i)  == SubSeq(s, i + 1, Len(s))

CharsOf(s) == {SubSeq(s, i, i) : i \in 1..Len(s)}

Letters == CharsOf(UpperAlpha) \cup CharsOf(LowerAlpha)

\* The characters urllib accepts in a scheme.
scheme_chars == Letters \cup CharsOf("0123456789+-.")

\* urlsplit: the scheme is the text before the first ":" when it starts with
\* a letter and is made of scheme characters.
urlScheme(url) ==
    LET colon == FindFirst({":"}, url)
    IN  IF /\ colon > 1
           /\ SubSeq(url, 1, 1) \in Letters
           /\ \A j \in 1..(colon - 1) : SubSeq(url, j, j) \in scheme_chars
        THEN [scheme |-> lower(Before(url, colon)), rest |-> After(url, colon)]
        ELSE [scheme |-> "", rest |-> url]

\* urlsplit: after "//" the network location runs to the first "/", "?" or
\* "#" (_splitnetloc).
urlNetloc(url) ==
    IF Len(url) >= 2 /\ SubSeq(url, 1, 2) = "//"
    THEN LET delim == FindFirst({"/", "?", "#"}, SubSeq(url, 3, Len(url)))
         IN  IF delim = 0
             THEN [has |-> TRUE, netloc |-> SubSeq(url, 3, Len(url)), rest |-> ""]
             ELSE [has |-> TRUE, netloc |-> SubSeq(url, 3, delim + 1),
                   rest |-> SubSeq(url, delim + 2, Len(url))]
    ELSE [has |-> FALSE, netloc |-> "", rest |-> url]

\* url.split(sep, 1), the second part empty when sep is not in url
urlCut(url, sep) ==
    LET i == FindFirst({sep}, url)
    IN  IF i = 0 THEN [head |-> url, tail |-> ""]
        ELSE [head |-> Before(url, i), tail |-> After(url, i)]

\* _splitparams: the parameters follow the first ";" of the last path segment.
urlParams(url) ==
    LET k == FindFirst({";"}, SubSeq(url, FindLastSlash(url) + 1, Len(url)))
    IN  IF k = 0 THEN [head |-> url, tail |-> ""]
        ELSE [head |-> Before(url, FindLastSlash(url) + k),
              tail |-> After(url, FindLastSlash(url) + k)]

urlResult(scheme, n, fragment, query, p) ==
    IF n.has /\ (("[" \in CharsOf(n.netloc)) # ("]" \in CharsOf(n.netloc)))
    THEN [ok |-> FALSE, error |-> "ValueError: Invalid IPv6 URL"]
    ELSE [ok |-> TRUE, scheme |-> scheme, netloc |-> n.netloc, path |-> p.head,
          params |-> p.tail, query |-> query, fragment |-> fragment]

urlAfterFragment(scheme, n, f) ==
    urlResult(scheme, n, f.tail, urlCut(f.head, "?").tail,
              urlParams(urlCut(f.head, "?").head))

urlAfterNetloc(scheme, n) == urlAfterFragment(scheme, n, urlCut(n.rest, "#"))

urlAfterScheme(s) == urlAfterNetloc(s.scheme, urlNetloc(s.rest))

\* urlparse(url): the six components, or the ValueError urlsplit raises on a
\* network location with an unmatched square bracket.
urlparse(url) == urlAfterScheme(urlScheme(url))

\* str.split(sep)
RECURSIVE Split(_, _)
Split(s, sep) ==
    LET i == FindFirst({sep}, s)
    IN  IF i = 0 THEN <<s>> ELSE <<Before(s, i)>> \o Split(After(s, i), sep)

\* The printable ASCII characters by code: codes 32 to 95, and codes 97 to
\* 126 (code 96 cannot be written in a string here and is left escaped).
AsciiLow  == " !\"#$%&'()*+,-./0123456789:;<=>?@ABCDEFGHIJKLMNOPQRSTUVWXYZ[\\]^_"
AsciiHigh == "abcdefghijklmnopqrstuvwxyz{|}~"

Chr(code) ==
    IF code < 96 THEN SubSeq(AsciiLow, code - 31, code - 31)
    ELSE SubSeq(AsciiHigh, code - 96, code - 96)

HexDigits == "0123456789abcdef"

IsHex(c) == lower(c) \in CharsOf(HexDigits)

HexVal(c) == FindFirst({lower(c)}, HexDigits) - 1

\* str.replace("+", " ")
RECURSIVE PlusToSpace(_)
PlusToSpace(s) ==
    IF Len(s) = 0 THEN ""
    ELSE (IF SubSeq(s, 1, 1) = "+" THEN " " ELSE SubSeq(s, 1, 1))
            \o PlusToSpace(SubSeq(s, 2, Len(s)))

\* urllib.parse.unquote, for the escapes of the characters above.
RECURSIVE unquote(_)
unquote(s) ==
    IF Len(s) = 0 THEN ""
    ELSE IF /\ SubSeq(s, 1, 1) = "%" /\ Len(s) >= 3
            /\ IsHex(SubSeq(s, 2, 2)) /\ IsHex(SubSeq(s, 3, 3))
            /\ 16 * HexVal(SubSeq(s, 2, 2)) + HexVal(SubSeq(s, 3, 3)) \in (32..126) \ {96}
         THEN Chr(16 * HexVal(SubSeq(s, 2, 2)) + HexVal(SubSeq(s, 3, 3)))
                 \o unquote(SubSeq(s, 4, Len(s)))
         ELSE SubSeq(s, 1, 1) \o unquote(SubSeq(s, 2, Len(s)))

\* parse_qsl over the fields of a query: a field with no "=" or with a blank
\* value is dropped, names and values are unquoted.
RECURSIVE parseFields(_)
parseFields(fields) ==
    IF Len(fields) = 0 THEN <<>>
    ELSE LET nv  == fields[1]
             eq  == FindFirst({"="}, nv)
             val == After(nv, eq)
         IN  (IF eq = 0 \/ Len(val) = 0 THEN <<>>
              ELSE << [name  |-> unquote(PlusToSpace(Before(nv, eq))),
                       value |-> unquote(PlusToSpace(val))] >>)
                \o parseFields(Tail(fields))

\* parse_qs(query), as the sequence of its (name, value) pairs.
parse_qs(query) == parseFields(Split(query, "&"))

\* qs.get(name, [None])[0]
qsFirst(qs, name) ==
    IF \E i \in 1..Len(qs) : qs[i].name = name
    THEN LET i == CHOOSE j \in 1..Len(qs) :
                     /\ qs[j].name = name
                     /\ \A l \in 1..(j - 1) : qs[l].name # name
         IN  Some(qs[i].value)
    ELSE None

\* str.lstrip("/")
RECURSIVE lstripSlash(_)
lstripSlash(s) ==
    IF Len(s) > 0 /\ SubSeq(s, 1, 1) = "/" THEN lstripSlash(SubSeq(s, 2, Len(s))) ELSE s

WatchNetlocs == {"www.youtube.com", "youtube.com", "m.youtube.com"}

ShortNetlocs == {"youtu.be"}

\* The network location without its port, in lower case.
hostname(netloc) ==
    LET colon == FindFirst({":"}, netloc)
    IN  lower(IF colon = 0 THEN netloc ELSE Before(netloc, colon))

\* The hosts are compared by host name instead of by network location.
extract_video_id_by_hostname(youtube_url) ==
    LET parsed == urlparse(youtube_url)
    IN  IF ~parsed.ok THEN None
        ELSE IF hostname(parsed.netloc) \in WatchNetlocs
             THEN qsFirst(parse_qs(parsed.query), "v")
        ELSE IF hostname(parsed.netloc) \in ShortNetlocs
             THEN LET p == lstripSlash(parsed.path)
                  IN  IF p = "" THEN None ELSE Some(p)
        ELSE None

extract_video_id(youtube_url) ==
    LET parsed == urlparse(youtube_url)
    IN  IF ~parsed.ok THEN None
        ELSE IF parsed.netloc \in WatchNetlocs
             THEN qsFirst(parse_qs(parsed.query), "v")
        ELSE IF parsed.netloc \in ShortNetlocs
             THEN LET p == lstripSlash(parsed.path)
                  IN  IF p = "" THEN None ELSE Some(p)
        ELSE None

-----------------------------------------------------------------------------
(* summarize, the handler of POST /summarize: resolver, chain, adapter.      *)

\* name=value fields joined by "&"
RECURSIVE RenderQuery(_)
RenderQuery(q) ==
    IF Len(q) = 0 THEN ""
    ELSE q[1][1] \o "=" \o q[1][2]
            \o (IF Len(q) > 1 THEN "&" \o RenderQuery(Tail(q)) ELSE "")

\* The locator with these components, written out as a URL.
RenderUrl(scheme, authority, path, query, fragment) ==
    scheme \o "://" \o authority \o path
        \o (IF Len(query) > 0 THEN "?" \o RenderQuery(query) ELSE "")
        \o (IF fragment # "" THEN "#" \o fragment ELSE "")

\* The network locations the locators are written with, each with the host
\* it names (host names are case-insensitive; a port follows the host).
Authorities ==
    { <<"www.youtube.com", "www.youtube.com">>, <<"youtube.com", "youtube.com">>,
      <<"m.youtube.com", "m.youtube.com">>, <<"youtu.be", "youtu.be">>,
      <<"WWW.YouTube.com", "www.youtube.com">>, <<"www.youtube.com:443", "www.youtube.com">>,
      <<"youtu.be:443", "youtu.be">>,
      <<"music.youtube.com", "music.youtube.com">>, <<"vimeo.com", "vimeo.com">> }

LocatorIds == {"dQw4w9WgXcQ", "a-b_1"}

\* The paths and queries the locators are written with.
LocatorShapes ==
    UNION { { [path |-> "/watch", query |-> << <<"v", id>> >>, fragment |-> ""],
              [path |-> "/watch", query |-> << <<"list", "PL1">>, <<"v", id>>, <<"t", "10s">> >>,
               fragment |-> "top"],
              [path |-> "/" \o id, query |-> <<>>, fragment |-> ""],
              [path |-> "/" \o id, query |-> << <<"t", "10">> >>, fragment |-> ""] }
            : id \in LocatorIds }
    \cup { [path |-> "/watch", query |-> << <<"v", "">> >>, fragment |-> ""],
           [path |-> "/", query |-> <<>>, fragment |-> ""],
           [path |-> "", query |-> <<>>, fragment |-> ""] }

\* Strings that are no URL with a network location.
MalformedUrls ==
    { "", "dQw4w9WgXcQ", "http://[youtu.be/dQw4w9WgXcQ", "youtube.com/watch?v=dQw4w9WgXcQ" }

\* The locators the handler is called with: the string, and the components
\* it was written from (none for a malformed one).
Locators ==
    { [url |-> RenderUrl("https", a[1], sh.path, sh.query, sh.fragment),
       authority |-> a[1], host |-> a[2], path |-> sh.path, query |-> sh.query]
      : a \in Authorities, sh \in LocatorShapes }
    \cup { [url |-> u, authority |-> "", host |-> "", path |-> "", query |-> <<>>]
           : u \in MalformedUrls }

\* Transcripts around the adapter's length guard: n characters, the i-th one
\* depending on i.
RECURSIVE Repeat(_, _)
Repeat(str, n) ==
    IF n = 0 THEN ""
    ELSE IF n % 2 = 0 THEN LET h == Repeat(str, n \div 2) IN h \o h
    ELSE str \o Repeat(str, n - 1)

TextOfLength(n) == SubSeq(Repeat("0123456789abcdefg", n \div 17 + 1), 1, n)

TranscriptLengths == {max_chars - 1, max_chars, max_chars + 1, 20000}

LongTranscripts == {TextOfLength(n) : n \in TranscriptLengths}

\* What the five strategies do during one call of summarize.
SummarizeScenarios(e, video_id, q) ==
    { << (IF e.YOUTUBE_API_KEY THEN _try_youtube_api(q) ELSE NotRun), o2, o3, o4, o5 >> :
        o2 \in YtdlpOutcomes(e.OPENAI_API_KEY)
                 \cup (IF e.OPENAI_API_KEY THEN {Return(t) : t \in LongTranscripts} ELSE {}),
        o3 \in StealthOutcomes(e.OPENAI_API_KEY),
        o4 \in SeleniumOutcomes,
        o5 \in AlternativeOutcomes(video_id) }

\* The class of the exception fetch_transcript_text raises: a plain Exception.
chainErrorType(c) == "Exception"

summarizeStart(l, q) ==
    [pc |-> "resolve", locator |-> l, query |-> q, video_id |-> None,
     out |-> <<>>, invoked |-> <<>>, calls |-> <<>>, text |-> "", lang_code |-> "",
     user_prompt |-> "", status |-> 0, ret |-> None, detail |-> ""]

InitSummarize ==
    /\ env \in Environments
    /\ \E l \in Locators, q \in CaptionQueries : th = <<summarizeStart(l, q)>>

\* video_id = extract_video_id(req.url); 400 when it is None
SummarizeResolve ==
    /\ Len(th) = 1 /\ th[1].pc = "resolve"
    /\ LET video_id == extract_video_id(th[1].locator.url)
       IN  th' = [th EXCEPT ![1] =
                    IF video_id = None
                    THEN Fail(@, 400, "yuhyohan yutyubeu ling-keuga anibnida.")
                    ELSE [@ EXCEPT !.pc = "fetch", !.video_id = video_id]]
    /\ UNCHANGED <<bo, script, ch, CACHE, client, env>>

\* text, lang_code = fetch_transcript_text(video_id), with its except clauses
SummarizeFetch ==
    /\ Len(th) = 1 /\ th[1].pc = "fetch"
    /\ \E outs \in SummarizeScenarios(env, th[1].video_id[1], th[1].query) :
          LET c == chainRun(chainStart(th[1].video_id[1]), outs)
              r == [th[1] EXCEPT !.out = c.out, !.invoked = c.invoked,
                                 !.calls = Append(@, "fetch_transcript_text")]
          IN  th' = [th EXCEPT ![1] =
                       IF c.pc = "returned"
                       THEN [r EXCEPT !.pc = "adapter", !.text = c.text,
                                      !.lang_code = c.lang_code]
                       ELSE IF chainErrorType(c) \in {"TranscriptsDisabled", "NoTranscriptFound"}
                       THEN Fail(r, 404, "haedang yeongsang-eseo jamag-eul chaj-eul su eobs-seubnida.")
                       ELSE Fail(r, 500, "jamak cheori jung oryu: " \o c.err)]
    /\ UNCHANGED <<bo, script, ch, CACHE, client, env>>

\* The calls of summarize on a cache that holds a result for one of the
\* LocatorIds, stored by an earlier summarize_by_id call.
CachedId == "dQw4w9WgXcQ"

CacheWithCachedId ==
    Append(Filled(2), [key |-> get_cache_key(CachedId), value |-> SummaryOf(3)])

CachedLocators == {l \in Locators : l.authority \in {"www.youtube.com", "youtu.be"}}

InitSummarizeCached ==
    /\ env \in RequestEnvironments
    /\ CACHE = CacheWithCachedId
    /\ \E l \in CachedLocators : th = <<summarizeStart(l, NoQuery)>>

\* The handler stores its response for the video id.
SummarizeAdapterStoring ==
    /\ Len(th) = 1 /\ th[1].pc = "adapter"
    /\ \E completion \in Completions(1) :
          LET a == summarize_with_openai(env, th[1].text, th[1].lang_code, completion)
              r == [th[1] EXCEPT !.user_prompt = a.user_prompt,
                                 !.calls = IF a.called
                                           THEN Append(@, "chat.completions.create")
                                           ELSE @]
          IN  /\ th' = [th EXCEPT ![1] =
                          IF a.kind = "RuntimeError" THEN Fail(r, 500, a.val)
                          ELSE IF a.kind = "Exception"
                          THEN Fail(r, 500, "yoyak jung oryu: " \o a.val)
                          ELSE Respond(r, [language |-> r.lang_code, summary |-> a.val])]
              /\ CACHE' = IF a.kind = "return"
                          THEN set_cached_result(CACHE, th[1].video_id[1],
                                                 [language |-> r.lang_code, summary |-> a.val])
                          ELSE CACHE
    /\ UNCHANGED <<bo, script, ch, client, env>>

\* summary = summarize_with_openai(text, lang_code), with its except clauses,
\* and the response
SummarizeAdapter ==
    /\ Len(th) = 1 /\ th[1].pc = "adapter"
    /\ \E completion \in Completions(1) :
          LET a == summarize_with_openai(env, th[1].text, th[1].lang_code, completion)
              r == [th[1] EXCEPT !.user_prompt = a.user_prompt,
                                 !.calls = IF a.called
                                           THEN Append(@, "chat.completions.create")
                                           ELSE @]
          IN  th' = [th EXCEPT ![1] =
                       IF a.kind = "RuntimeError" THEN Fail(r, 500, a.val)
                       ELSE IF a.kind = "Exception"
                       THEN Fail(r, 500, "yoyak jung oryu: " \o a.val)
                       ELSE Respond(r, [language |-> r.lang_code, summary |-> a.val])]
    /\ UNCHANGED <<bo, script, ch, CACHE, client, env>>

\* One summarize_by_id request on an empty cache, the chain doing whatever
\* it can do.
InitById ==
    /\ env \in Environments
    /\ CACHE = <<>>
    /\ th = <<threadStart(VideoId(1))>>

WorkAnyScenario(t) ==
    WorkWith(t, Durations,
             UNION {SummarizeScenarios(env, th[t].video_id, q) : q \in CaptionQueries})

-----------------------------------------------------------------------------
(* The specifications.                                                      *)

boIdle     == [pc |-> "idle"]
chainIdle  == [pc |-> "idle"]
clientIdle == [op |-> "idle"]
envIdle    == [YOUTUBE_API_KEY |-> FALSE, OPENAI_API_KEY |-> FALSE]

\* One call of _with_backoff, on every operation of NAttempts calls.
SpecBackoffInit ==
    /\ InitBackoff
    /\ ch = chainIdle /\ CACHE = <<>> /\ th = <<>> /\ client = clientIdle /\ env = envIdle

SpecBackoffNext == with_backoff

SpecBackoff == SpecBackoffInit /\ [][SpecBackoffNext]_vars

\* One call of fetch_transcript_text.
SpecChainInit ==
    /\ InitChain
    /\ bo = boIdle /\ script = <<>> /\ CACHE = <<>> /\ th = <<>> /\ client = clientIdle

SpecChainNext ==
    \/ TryYoutubeApi
    \/ TryWhisper
    \/ TryAdvancedStealth
    \/ TrySelenium
    \/ TryAlternative

SpecChain == SpecChainInit /\ [][SpecChainNext]_vars

\* The same, every call a strategy makes returning or raising in the end: the
\* chain's next step is eventually taken.
SpecChainLive == SpecChain /\ WF_vars(SpecChainNext)

\* One call of strategy 2 or of strategy 3.
SpecDownloadInit ==
    /\ InitDownload
    /\ bo = boIdle /\ script = <<>> /\ CACHE = <<>> /\ th = <<>> /\ client = clientIdle

SpecDownloadNext == Mkdtemp \/ YtdlpTry \/ StealthTry \/ Rmtree

SpecDownload == SpecDownloadInit /\ [][SpecDownloadNext]_vars

\* The cache functions called one at a time, from an empty cache.
SpecCacheInit ==
    /\ InitClient
    /\ bo = boIdle /\ script = <<>> /\ ch = chainIdle /\ th = <<>> /\ env = envIdle

SpecCacheNext == ClientPut \/ ClientGet

SpecCache == SpecCacheInit /\ [][SpecCacheNext]_vars

\* One call of summarize.
SpecSummarizeInit ==
    /\ InitSummarize
    /\ bo = boIdle /\ script = <<>> /\ ch = chainIdle /\ CACHE = <<>> /\ client = clientIdle

SpecSummarizeNext == SummarizeResolve \/ SummarizeFetch \/ SummarizeAdapter

SpecSummarize == SpecSummarizeInit /\ [][SpecSummarizeNext]_vars

\* One call of one of the two endpoints, summarize or summarize_by_id.
SpecEndpointsInit ==
    /\ InitSummarize \/ InitById
    /\ bo = boIdle /\ script = <<>> /\ ch = chainIdle /\ CACHE = <<>> /\ client = clientIdle

SpecEndpointsNext ==
    \/ SummarizeResolve
    \/ SummarizeFetch
    \/ SummarizeAdapter
    \/ Lookup(1)
    \/ WorkAnyScenario(1)
    \/ PutInsert(1)
    \/ PutCheck(1)

SpecEndpoints == SpecEndpointsInit /\ [][SpecEndpointsNext]_vars

\* One call of summarize on a cache that is not empty.
SpecSummarizeCachedInit ==
    /\ InitSummarizeCached
    /\ bo = boIdle /\ script = <<>> /\ ch = chainIdle /\ client = clientIdle

SpecSummarizeCached == SpecSummarizeCachedInit /\ [][SpecSummarizeNext]_vars

\* One summarize_by_id request, on a video of any duration.
SpecEstimateInit ==
    /\ InitEstimate
    /\ bo = boIdle /\ script = <<>> /\ ch = chainIdle /\ client = clientIdle

SpecEstimateNext ==
    \/ Lookup(1)
    \/ WorkAnyDuration(1)
    \/ PutInsert(1)
    \/ PutCheck(1)
    \/ PutIter(1)
    \/ PutNext(1)
    \/ PutDel(1)

SpecEstimate == SpecEstimateInit /\ [][SpecEstimateNext]_vars

\* Concurrent summarize_by_id requests.
Init ==
    /\ InitRequests
    /\ bo = boIdle /\ script = <<>> /\ ch = chainIdle /\ client = clientIdle

Next ==
    \E t \in Requests :
        \/ Lookup(t)
        \/ Work(t)
        \/ PutInsert(t)
        \/ PutCheck(t)
        \/ PutIter(t)
        \/ PutNext(t)
        \/ PutDel(t)

Spec == Init /\ [][Next]_vars

-----------------------------------------------------------------------------
(* The properties.                                                          *)

BackoffDone == bo.pc \in {"returned", "raised"}

\* The operation raises a rate-limit error (a message holding one of the
\* three rate-limit tokens) on every call.
AlwaysRateLimited ==
    \A i \in 1..NAttempts : script[i] # Returned /\ Is429[script[i]]

\* C1: _with_backoff, given an operation that raises a rate-limit error on
\* every call, calls it exactly 5 times and only then propagates the last
\* error.
C1_RateLimitedFiveAttempts ==
    (BackoffDone /\ AlwaysRateLimited)
        => (bo.pc = "raised" /\ bo.calls = 5 /\ bo.err = script[5])

\* C9: _with_backoff, given an operation whose error is classified
\* ACCESS_RESTRICTED or OTHER, calls it exactly once, sleeps for no delay
\* and propagates that same error.
C9_NonRetryableOnce ==
    (bo.calls >= 1 /\ script[1] # Returned
        /\ ClassOf[script[1]] \in {"ACCESS_RESTRICTED", "OTHER"})
        => (bo.pc = "raised" /\ bo.calls = 1 /\ bo.slept = <<>> /\ bo.err = script[1])

C9_Witness ==
    /\ bo.pc = "raised" /\ bo.calls = 1
    /\ ClassOf[script[1]] = "OTHER"

\* C10: every message that holds both a restricted-access keyword and a
\* rate-limit token is classified ACCESS_RESTRICTED, not RATE_LIMITED, and
\* _with_backoff stops on it at once instead of retrying.
C10_RestrictedBeforeRateLimit ==
    \A i \in 1..NAttempts :
        LET m == script[i]
        IN  (m # Returned /\ IsRestricted[m] /\ Is429[m])
                => /\ ClassOf[m] = "ACCESS_RESTRICTED"
                   /\ (i = 1 /\ bo.calls >= 1)
                         => (bo.pc = "raised" /\ bo.calls = 1 /\ bo.err = m)

C10_Witness ==
    /\ bo.pc = "raised" /\ bo.calls = 1
    /\ IsBlocking[script[1]] /\ Is429[script[1]]

ChainDone == ch.pc \in {"returned", "raised"}

\* C2 as stated: whenever strategy 5 is reached and returns without raising,
\* the chain returns successfully with strategy 5's string.
C2_Strategy5StringAlwaysReturned ==
    (ChainDone /\ ch.out[5].kind = "text")
        => (ch.pc = "returned" /\ ch.text = ch.out[5].val /\ ch.lang_code = "alternative")

\* C2 as amended: strategy 5, once reached, returns a string and never
\* raises; the chain returns with that string exactly when it holds the
\* title marker, and otherwise (the placeholder of a failed probe) ends in
\* the "all methods failed" error.
C2_Strategy5TakenIffTitleMarker ==
    (ChainDone /\ ch.out[5] # NotRun)
        => /\ ch.out[5].kind = "text"
           /\ IF Contains(TitleMarker, ch.out[5].val)
              THEN /\ ch.pc = "returned"
                   /\ ch.text = ch.out[5].val
                   /\ ch.lang_code = "alternative"
              ELSE ch.pc = "raised" /\ ch.err = AllMethodsFailed

C2_Witness ==
    /\ ch.pc = "raised"
    /\ ch.out[5] = Return(AlternativePlaceholder(ch.video_id))

\* A strategy gave no result: it raised, or returned None.
GaveNothing(o) == o.kind \in {"raise", "none"}

\* Strategy k was invoked.
Invoked(k) == \E i \in 1..Len(ch.invoked) : ch.invoked[i] = k

\* The strategies were invoked in increasing order, each at most once.
InvokedInOrder ==
    \A i, j \in 1..Len(ch.invoked) : i < j => ch.invoked[i] < ch.invoked[j]

\* C3 as stated: the strategies are invoked in the order 1..5, each at most
\* once; strategy k+1 is invoked exactly when each of strategies 1..k has
\* raised (an error of any class) or returned nothing.
C3_NextInvokedIffAllEarlierGaveNothing ==
    /\ InvokedInOrder
    /\ \A k \in 1..(NStrategies - 1) :
          /\ Invoked(k + 1) => \A j \in 1..k : GaveNothing(ch.out[j])
          /\ (ChainDone /\ \A j \in 1..k : GaveNothing(ch.out[j])) => Invoked(k + 1)

\* Strategy 1 was passed over: the chain is beyond it and its function was
\* never called (YOUTUBE_API_KEY is not set).
Skipped(k) == k = 1 /\ ~env.YOUTUBE_API_KEY /\ (ch.k > 1 \/ ChainDone)

\* C3 as amended: the same, except that strategy 1 is invoked only when
\* YOUTUBE_API_KEY is set, and a strategy passed over counts like one that
\* gave nothing.  No strategy is invoked after one that returned a string.
C3_StrategiesInOrder ==
    /\ InvokedInOrder
    /\ Invoked(1) => env.YOUTUBE_API_KEY
    /\ (ch.k > 1 \/ ChainDone) => (Invoked(1) <=> env.YOUTUBE_API_KEY)
    /\ \A k \in 1..(NStrategies - 1) :
          /\ Invoked(k + 1)
                => \A j \in 1..k : GaveNothing(ch.out[j]) \/ Skipped(j)
          /\ (ChainDone /\ \A j \in 1..k : GaveNothing(ch.out[j]) \/ Skipped(j))
                => Invoked(k + 1)
    /\ \A j, k \in 1..NStrategies :
          (j < k /\ ch.out[j].kind = "text") => ~Invoked(k)

\* Strategy 2 raised an ACCESS_RESTRICTED error and strategy 3 was invoked.
C3_Witness ==
    /\ ch.invoked = <<1, 2, 3>>
    /\ ch.out[1] = ReturnNone
    /\ ch.out[2].kind = "raise" /\ ErrorClass(ch.out[2].val) = "ACCESS_RESTRICTED"

\* C4: every text the chain returns is non-empty.
C4_ReturnedTextNonEmpty == ch.pc = "returned" => ch.text # ""

PutInProgress(t) == th[t].pc \in {"check", "iter", "next", "del"}

\* C5: the cache never holds more than 100 entries.  Stated here for the
\* states in which no put is between its insert and its eviction (the claim
\* says it of every state).
C5_NeverMoreThan100 ==
    (\A t \in Requests : ~PutInProgress(t)) => Len(CACHE) <= 100

\* What get must give for id v_i after the n distinct ids v1 .. vn were put in
\* this order: the stored value for the last 100 of them, nothing otherwise.
ExpectedAfter(n, i) == IF i <= n /\ i > n - 100 THEN Some(SummaryOf(i)) ELSE None

\* C6: after n > 100 puts of distinct ids into an empty cache, one at a time,
\* the cache holds exactly the 100 ids put last, in the order they were put;
\* get gives the stored value for each of them and nothing for the others.
C6_Last100Kept ==
    (client.overwrites = 0 /\ client.puts > 100)
        => LET n == client.puts
           IN  /\ Len(CACHE) = 100
               /\ \A j \in 1..100 : CACHE[j].key = get_cache_key(VideoId(n - 100 + j))
               /\ \A i \in 1..(n + 1) :
                     get_cached_result(CACHE, VideoId(i)) = ExpectedAfter(n, i)
               /\ (client.op = "get" /\ \E i \in 1..(n + 1) : client.id = VideoId(i))
                     => \A i \in 1..(n + 1) :
                          client.id = VideoId(i) => client.ret = ExpectedAfter(n, i)

\* After 101 puts a get of the first id gives nothing; the 2nd and the 101st
\* id are present.
C6_Witness ==
    /\ client.puts = 101 /\ client.overwrites = 0
    /\ client.op = "get" /\ client.id = VideoId(1) /\ client.ret = None
    /\ get_cached_result(CACHE, VideoId(2)) = Some(SummaryOf(2))
    /\ get_cached_result(CACHE, VideoId(101)) = Some(SummaryOf(101))

\* C7: concurrent puts never fail with an error, and once all requests have
\* ended the cache holds at most 100 entries.
C7_ConcurrentPutsSafe ==
    /\ \A t \in Requests : th[t].pc # "crashed"
    /\ (\A t \in Requests : th[t].pc \in {"done", "crashed"}) => Len(CACHE) <= 100

\* C8: a summarize_by_id whose id is in the cache returns the cached result,
\* calls neither the duration probe nor the chain nor the summary generation,
\* and leaves CACHE (items and order) as it was.
C8_CacheHitIsPureRead ==
    [][\A t \in Requests :
          (th[t].pc = "lookup" /\ th'[t] # th[t]
              /\ dictHas(CACHE, get_cache_key(th[t].video_id)))
            => /\ th'[t].pc = "done" /\ th'[t].status = 200
               /\ th'[t].ret = Some(CACHE[dictIndex(CACHE, get_cache_key(th[t].video_id))].value)
               /\ th'[t].calls = <<>>
               /\ CACHE' = CACHE]_vars

C8_Witness ==
    \E t \in Requests :
        /\ th[t].pc = "done" /\ th[t].status = 200 /\ th[t].calls = <<>>
        /\ th[t].video_id = VideoId(1)
        /\ th[t].ret = Some(SummaryOf(1))
        /\ Len(CACHE) >= MaxCache - 1

\* C11: no error raised inside a strategy leaves the chain: after a strategy
\* raised, the chain went on to the next strategy, and the only error
\* fetch_transcript_text itself raises is the aggregated "all methods failed"
\* error, raised when no strategy's result was taken.
C11_OnlyAggregatedFailure ==
    /\ ch.pc = "raised"
          => /\ ch.err = AllMethodsFailed
             /\ \A k \in 1..NStrategies : ch.out[k].kind = "raise" => ch.err # ch.out[k].val
             /\ \A k \in 1..NStrategies : Invoked(k) \/ Skipped(k)
    /\ \A k \in 1..NStrategies :
          ch.out[k].kind = "raise"
            => /\ ch.k > k \/ ChainDone
               /\ k < NStrategies => (Invoked(k + 1) \/ ch.k = k + 1)

C11_Witness ==
    /\ ch.pc = "raised" /\ ch.err = AllMethodsFailed
    /\ ch.out[2].kind = "raise" /\ ch.out[3].kind = "raise"
    /\ ErrorClass(ch.out[3].val) = "ACCESS_RESTRICTED"

\* The platform lists no caption track at all for the video.
NoCaptionTrack(q) == q.kind = "tracks" /\ Len(q.items) = 0

\* C12: summarize ends with a typed outcome: 400 for a locator the resolver
\* does not recognize, before any strategy is invoked; 404 when it fails on a
\* video for which the platform, asked for the caption tracks, lists none;
\* 500 for every other failure.
C12_TypedFailures ==
    (Len(th) = 1 /\ th[1].pc = "done")
        => LET r == th[1]
           IN  /\ r.status \in {200, 400, 404, 500}
               /\ r.video_id = None <=> r.status = 400
               /\ r.status = 400 => (r.invoked = <<>> /\ r.calls = <<>>)
               /\ (r.status \notin {200, 400} /\ env.YOUTUBE_API_KEY)
                     => (r.status = 404 <=> NoCaptionTrack(r.query))

\* The platform lists a caption track in the primary language (Korean).
HasPrimaryTrack(q) ==
    q.kind = "tracks" /\ \E i \in 1..Len(q.items) : q.items[i].language = "ko"

\* C13: when strategy 1 succeeds on a video with a primary-language caption
\* track, the chain returns that track's caption text with the official-API
\* source tag, and strategies 2 to 5 are not invoked.
C13_OfficialCaptionText ==
    (ChainDone /\ ch.out[1].kind = "text" /\ HasPrimaryTrack(ch.query))
        => /\ ch.pc = "returned" /\ ch.lang_code = "youtube_api"
           /\ ch.invoked = <<1>>
           /\ ch.text = CaptionText("ko")

\* The caption strategy failed with an ACCESS_RESTRICTED error (which
\* _try_youtube_api catches, returning nothing) and the direct audio
\* transcription strategy returned a transcript.
CaptionRestrictedThenTranscribed(r) ==
    /\ r.out # <<>>
    /\ r.query.kind = "error" /\ ErrorClass(r.query.msg) = "ACCESS_RESTRICTED"
    /\ r.out[1] = ReturnNone
    /\ r.out[2].kind = "text"

\* C14: when the caption strategy fails with an ACCESS_RESTRICTED error and
\* the direct audio transcription succeeds, the chain's result is the
\* transcript tagged "whisper", strategies 3 to 5 are not invoked, and the
\* prompt is built from the template that asks for a translation first.
C14_TranscriptionUsesTranslateTemplate ==
    (Len(th) = 1 /\ CaptionRestrictedThenTranscribed(th[1]))
        => LET r == th[1]
           IN  /\ r.lang_code = "whisper"
               /\ r.text = r.out[2].val
               /\ r.invoked = <<1, 2>>
               /\ r.pc = "done"
                     => /\ r.calls = <<"fetch_transcript_text", "chat.completions.create">>
                        /\ r.user_prompt = UserPromptTranslate \o truncate(r.text)

C14_Witness ==
    /\ Len(th) = 1 /\ CaptionRestrictedThenTranscribed(th[1])
    /\ th[1].pc = "done" /\ th[1].status = 200
    /\ th[1].ret = Some([language |-> "whisper", summary |-> "summary of request 1"])
    /\ SubSeq(th[1].user_prompt, 1, Len(UserPromptTranslate)) = UserPromptTranslate

\* The request has made its estimate.
Estimated(r) == r.pc # "lookup" /\ r.pc # "work"

\* C15: the estimate is 60 for duration 0, 48 up to 300, 70 from 900 on, and
\* in between the interpolation between (300, 48) and (900, 70) rounded
\* toward zero, 48 + floor(22 * (d - 300) / 600); so 0, 100, 300, 600, 900
\* and 1200 seconds give 60, 48, 48, 59, 70 and 70.
C15_EstimatePiecewiseLinear ==
    (Len(th) = 1 /\ Estimated(th[1]))
        => LET d == th[1].duration
               e == th[1].estimated_time
           IN  /\ d = 0 => e = 60
               /\ (d # 0 /\ d <= 300) => e = 48
               /\ d >= 900 => e = 70
               /\ (300 < d /\ d < 900) => e = 48 + (22 * (d - 300)) \div 600
               /\ d = 100 => e = 48
               /\ d = 600 => e = 59
               /\ d = 1200 => e = 70

C15_Witness ==
    /\ Len(th) = 1 /\ th[1].pc = "done" /\ th[1].status = 200
    /\ th[1].duration = 600 /\ th[1].estimated_time = 59
    /\ th[1].ret[1].estimated_time = 59

\* The transcript text the adapter put in the prompt: the user prompt after
\* its template.
PromptTranscript(r) ==
    SubSeq(r.user_prompt, Len(user_prompt_template(r.lang_code)) + 1, Len(r.user_prompt))

\* C16: a transcript of at most 16000 characters is put in the prompt
\* unchanged; a longer one is replaced by its first 12000 characters, the
\* marker "\n...\n" and its last 3000 characters, in this order; the text in
\* the prompt is never longer than 16000 characters.
C16_TranscriptTruncation ==
    (Len(th) = 1 /\ th[1].pc = "done" /\ th[1].user_prompt # "")
        => LET t == th[1].text
               n == Len(t)
               p == PromptTranscript(th[1])
           IN  /\ n <= 16000 => p = t
               /\ n > 16000
                    => /\ Len(p) = 12000 + Len("\n...\n") + 3000
                       /\ SubSeq(p, 1, 12000) = SubSeq(t, 1, 12000)
                       /\ SubSeq(p, 12001, 12000 + Len("\n...\n")) = "\n...\n"
                       /\ SubSeq(p, Len(p) - 2999, Len(p)) = SubSeq(t, n - 2999, n)
               /\ Len(p) <= 16000

C16_Witness ==
    /\ Len(th) = 1 /\ th[1].pc = "done" /\ th[1].status = 200
    /\ Len(th[1].text) = 20000
    /\ Len(PromptTranscript(th[1])) = 15005

\* The request found its id not cached and has ended.
EndedUncached(r) == r.pc \in {"done", "crashed"} /\ r.calls # <<>>

\* Without the credential: the generative capability is never called, the
\* chain is called once and the adapter is not called again, no request
\* reaches the cache put, and CACHE stays as it was at the start.
NothingGeneratedOrCached ==
    /\ \A t \in Requests :
          /\ \A i \in 1..Len(th[t].calls) : th[t].calls[i] # "chat.completions.create"
          /\ Len(th[t].calls) <= 2
          /\ th[t].pc \in {"lookup", "work", "done"}
    /\ \E n \in Prefills : CACHE = Filled(n)

\* C17 as stated: with no credential for the generative capability, every
\* summarize_by_id call on an uncached id ends in the configuration error;
\* nothing is generated, retried or cached.
C17_NoCredentialConfigurationError ==
    ~env.OPENAI_API_KEY
        => /\ NothingGeneratedOrCached
           /\ \A t \in Requests :
                 EndedUncached(th[t])
                    => /\ th[t].status = 500
                       /\ th[t].detail = "OPENAI_API_KEY not set"

\* C17 as amended: every such call fails with status 500: with the
\* configuration error when the chain returned a transcript, and with the
\* chain's "all methods failed" error when it did not (the adapter is then
\* never reached); nothing is generated, retried or cached.
C17_NoCredentialAlwaysFails ==
    ~env.OPENAI_API_KEY
        => /\ NothingGeneratedOrCached
           /\ \A t \in Requests :
                 EndedUncached(th[t])
                    => /\ th[t].pc = "done" /\ th[t].status = 500 /\ th[t].ret = None
                       /\ IF th[t].lang_code # ""
                          THEN th[t].detail = "OPENAI_API_KEY not set"
                          ELSE th[t].detail = "jamak cheori jung oryu: " \o AllMethodsFailed

C17_Witness ==
    /\ ~env.OPENAI_API_KEY
    /\ \E t \in Requests :
          /\ EndedUncached(th[t]) /\ th[t].status = 500
          /\ th[t].lang_code = "alternative"
          /\ th[t].detail = "OPENAI_API_KEY not set"

\* C18: provided every external call returns or raises in the end, every run
\* of the chain ends: it returns a result or raises the aggregated failure,
\* having invoked each of the five strategies at most once, in order, and
\* made at most 25 metadata probes (5 URL forms x 5 client identities)
\* inside strategy 5.
C18_ChainTerminates ==
    /\ <>ChainDone
    /\ [](/\ InvokedInOrder
          /\ Len(ch.invoked) <= 5
          /\ ch.probes <= 25
          /\ ch.probes > 0 => Invoked(5)
          /\ ch.pc = "raised" => ch.err = AllMethodsFailed)

C18_Witness ==
    /\ ch.pc = "raised" /\ ch.err = AllMethodsFailed
    /\ ch.invoked = <<1, 2, 3, 4, 5>>
    /\ ch.probes = 25

\* The id a locator carries in its "v" query parameter: the first value of
\* "v" that is not empty.
IdInQuery(l) ==
    IF \E i \in 1..Len(l.query) : l.query[i][1] = "v" /\ l.query[i][2] # ""
    THEN LET i == CHOOSE j \in 1..Len(l.query) :
                     /\ l.query[j][1] = "v" /\ l.query[j][2] # ""
                     /\ \A k \in 1..(j - 1) : ~(l.query[k][1] = "v" /\ l.query[k][2] # "")
         IN  Some(l.query[i][2])
    ELSE None

\* The id a locator carries as its path.
IdInPath(l) ==
    IF Len(l.path) > 1 THEN Some(SubSeq(l.path, 2, Len(l.path))) ELSE None

\* The id of a locator whose host, named as name, is a watch-page host or the
\* short-link host; nothing for any other locator.
EmbeddedId(name, l) ==
    IF name \in {"www.youtube.com", "youtube.com", "m.youtube.com"} THEN IdInQuery(l)
    ELSE IF name = "youtu.be" THEN IdInPath(l)
    ELSE None

\* When the resolver has answered (the handler is about to call the chain,
\* or has answered 400) nothing else has happened.
ResolverHasNoSideEffect(r) ==
    (r.pc = "fetch" \/ r.status = 400)
        => /\ r.calls = <<>> /\ r.invoked = <<>> /\ r.out = <<>>
           /\ r.text = "" /\ r.user_prompt = ""
           /\ CACHE = <<>>

\* C19 as stated: extract_video_id returns the embedded id of every locator
\* whose host is a watch-page host (id in "v") or the short-link host (id as
\* the path), and nothing for every other or malformed locator; it never
\* raises and has no side effect.
C19_ResolverByHost ==
    (Len(th) = 1 /\ th[1].pc # "resolve")
        => /\ th[1].video_id = EmbeddedId(th[1].locator.host, th[1].locator)
           /\ th[1].video_id = None <=> th[1].status = 400
           /\ ResolverHasNoSideEffect(th[1])

\* C19 as amended: the same with the host taken as the locator's network
\* location exactly as written: a locator that names one of the four hosts
\* in another spelling (upper-case letters, an explicit port) is answered
\* with nothing.
C19_ResolverByNetloc ==
    (Len(th) = 1 /\ th[1].pc # "resolve")
        => /\ th[1].video_id = EmbeddedId(th[1].locator.authority, th[1].locator)
           /\ th[1].video_id = None <=> th[1].status = 400
           /\ ResolverHasNoSideEffect(th[1])

\* A watch-page locator with other parameters around "v" gave its id, and
\* the handler went on to the chain.
C19_Witness ==
    /\ Len(th) = 1 /\ th[1].pc = "fetch"
    /\ th[1].locator.url = "https://m.youtube.com/watch?list=PL1&v=a-b_1&t=10s#top"
    /\ th[1].video_id = Some("a-b_1")

\* C20: once the cache holds an entry for an id, the entry is never mutated:
\* in every step, a key that is in the cache before and after the step keeps
\* its value ("the one written by the first successful call for that
\* resource, until the entry is evicted"), also when two requests for the
\* same uncached id run concurrently and both complete.
C20_EntryNeverMutated ==
    [][\A i \in 1..Len(CACHE) : \A j \in 1..Len(CACHE') :
          CACHE[i].key = CACHE'[j].key => CACHE[i].value = CACHE'[j].value]_vars

\* The results summarize_by_id builds: the dict of lines 833-839 around a
\* generated summary.
IsResult(v) ==
    /\ DOMAIN v = {"summary", "language", "method", "duration", "estimated_time"}
    /\ v.method = "Whisper + AI"
    /\ v.language \in {SourceTag[k] : k \in 1..NStrategies}

\* The request has failed in the chain or in the generation of the summary.
Failed(r) == r.status = 500

FailedInChain(r) == Failed(r) /\ r.calls = <<"get_video_duration", "fetch_transcript_text">>

FailedInGeneration(r) ==
    Failed(r) /\ Len(r.calls) = 3 /\ r.calls[3] = "chat.completions.create"

\* C21: a summarize_by_id call that fails in the chain or in the generation
\* of the summary never changes the cache, at the step it fails or at any
\* other of its steps; the cache changes only at the put of a request for
\* which the chain has returned a text and the adapter a summary; every
\* value in the cache is a result, never a failure; and a later call for the
\* same id that finds no entry runs the pipeline again.
C21_FailureLeavesCache ==
    [][/\ \A t \in Requests :
             Failed(th'[t]) /\ th'[t] # th[t]
                => /\ CACHE' = CACHE
                   /\ th[t].pc = "work" /\ th'[t].pc = "done" /\ th'[t].ret = None
                   /\ FailedInChain(th'[t]) \/ FailedInGeneration(th'[t])
       /\ CACHE' # CACHE
             => \E t \in Requests :
                   /\ th[t].pc \in {"insert", "del"}
                   /\ ~Failed(th[t])
                   /\ th[t].text # "" /\ th[t].result # None
                   /\ IsResult(th[t].result[1])
                   /\ Len(th[t].calls) = 3 /\ th[t].calls[3] = "chat.completions.create"
       /\ \A i \in 1..Len(CACHE') : IsResult(CACHE'[i].value)
       /\ \A t, u \in Requests :
             /\ Failed(th[t]) /\ th[u].video_id = th[t].video_id
             /\ th[u].pc = "lookup" /\ th'[u] # th[u]
             /\ ~dictHas(CACHE, get_cache_key(th[u].video_id))
             => th'[u].pc = "work"]_vars

\* One request has failed in the generation of the summary, a later one for
\* the same id has run the pipeline again and stored its result.
C21_Witness ==
    /\ FailedInGeneration(th[1])
    /\ th[2].video_id = th[1].video_id
    /\ th[2].pc = "done" /\ th[2].status = 200
    /\ Len(th[2].calls) = 3
    /\ CACHE = <<[key |-> get_cache_key(th[1].video_id), value |-> th[2].ret[1]]>>

\* The step is a put of a result for an id whose key is in the cache.
PutOfPresentKey ==
    /\ client'.puts = client.puts + 1
    /\ dictHas(CACHE, get_cache_key(client'.id))

\* C22: a put for a key that is in the cache replaces the value in place:
\* the cache keeps its length and its keys in their order (nothing is
\* evicted, no position changes), the key's entry holds the new value and
\* every other entry its old one; also when the cache holds 100 entries.
C22_OverwriteInPlace ==
    [][PutOfPresentKey
        => /\ Len(CACHE') = Len(CACHE)
           /\ \A i \in 1..Len(CACHE) :
                 /\ CACHE'[i].key = CACHE[i].key
                 /\ CACHE'[i].value =
                       IF CACHE[i].key = get_cache_key(client'.id)
                       THEN SummaryOf(client'.puts)
                       ELSE CACHE[i].value]_vars

\* The oldest entry of a cache of 100 entries has just been overwritten.
C22_Witness ==
    /\ Len(CACHE) = MaxCache
    /\ client.op = "put" /\ client.overwrites = 1
    /\ client.puts > MaxCache
    /\ CACHE[1].key = get_cache_key(client.id)
    /\ CACHE[1].value = SummaryOf(client.puts)

\* Strategy 4 could not read a title: the capability is missing, the
\* session did not start, the page visit or the title lookup failed, or the
\* session did not close.
BrowserFailed(b) == b.fails # "none" \/ b.quit = "raise"

\* C23: strategy 4 never raises into the chain; when the browser-automation
\* capability is unavailable, or the session or the title lookup fails, it
\* yields no result and the chain proceeds to strategy 5, so the chain never
\* ends with an error of strategy 4.
C23_Strategy4SkippedNotFailed ==
    Invoked(4)
        => /\ ch.out[4].kind \in {"none", "text"}
           /\ ch.err \in {NoError, AllMethodsFailed}
           /\ BrowserFailed(ch.browser)
                 => /\ ch.out[4] = ReturnNone
                    /\ ch.lang_code # SourceTag[4]
                    /\ Invoked(5) \/ (ch.pc = "strategy" /\ ch.k = 5)
           /\ ~BrowserFailed(ch.browser)
                 => /\ ch.pc = "returned" /\ ch.lang_code = SourceTag[4]
                    /\ ch.text = SeleniumText(ch.browser.title)

\* The capability is unavailable and the chain has returned strategy 5's text.
C23_Witness ==
    /\ ch.browser.fails = "import"
    /\ Invoked(4) /\ Invoked(5)
    /\ ch.pc = "returned" /\ ch.lang_code = SourceTag[5]

\* What the executor has done once it has made n calls: the first call, then
\* for each later call one sleep of the next delay and the call.
EventsOfAttempts(n) ==
    [j \in 1..(2 * n - 1) |-> IF j % 2 = 1 THEN Call ELSE Sleep(delays[j \div 2])]

\* The run has ended as the schedule allows: by a call that returned, by an
\* error that is not a rate-limit error, or with the schedule exhausted.
EndedBySchedule ==
    \/ bo.pc = "returned"
    \/ bo.pc = "raised" /\ ~Is429[script[bo.calls]]
    \/ bo.pc = "raised" /\ bo.calls = NAttempts /\ bo.slept = <<1, 3, 7, 12>>

\* C24: the executor sleeps only before a retry: the first call has no sleep
\* before it, call i+1 (after a rate-limit error of call i) has exactly one
\* sleep before it, of the i-th of the delays 1, 3, 7, 12, so that a run
\* that exhausts the schedule has slept 1, 3, 7, 12 in this order; and a call
\* that returns ends the run at once: no call and no sleep follows it.
C24_SleepBeforeEachRetry ==
    /\ bo.calls = 0 => bo.events = <<>> /\ bo.slept = <<>>
    /\ bo.calls >= 1
          => /\ bo.events = EventsOfAttempts(bo.calls)
             /\ bo.slept = SubSeq(<<1, 3, 7, 12>>, 1, bo.calls - 1)
             /\ \A j \in 1..(bo.calls - 1) : script[j] # Returned
             /\ script[bo.calls] = Returned <=> bo.pc = "returned"
    /\ BackoffDone => EndedBySchedule

\* The call of strategy 3 has made its downloads.
StealthDownloaded == ch.strategy = 3 /\ ch.pc \in {"finally", "returned", "raised"}

AllDownloadsFailed == \A i \in 1..NStealthUrls : ch.d.downloads[i] # DownloadOk

\* C25: in strategy 3 the canonical URL is downloaded first; when that fails
\* the mobile, the short-link and the embed form are tried in this order and
\* no further form after the first that succeeds; when every alternate
\* fails too, the strategy raises the error of the canonical URL's download.
C25_AlternatesThenOriginalError ==
    StealthDownloaded
        => /\ Len(ch.urls) >= 1
           /\ ch.urls = SubSeq(<< "https://www.youtube.com/watch?v=" \o ch.video_id,
                                  "https://m.youtube.com/watch?v=" \o ch.video_id,
                                  "https://youtu.be/" \o ch.video_id,
                                  "https://www.youtube.com/embed/" \o ch.video_id >>,
                               1, Len(ch.urls))
           /\ \A i \in 1..(Len(ch.urls) - 1) : ch.d.downloads[i] # DownloadOk
           /\ Len(ch.urls) < NStealthUrls => ch.d.downloads[Len(ch.urls)] = DownloadOk
           /\ IF AllDownloadsFailed
              THEN ch.outcome = Raise(ch.d.downloads[1])
              ELSE ch.outcome.kind = "raise" => ch.outcome.val \notin DownloadErrors

\* Every download has failed, the last one with another error than the first.
C25_Witness ==
    /\ StealthDownloaded /\ ch.pc = "raised"
    /\ AllDownloadsFailed
    /\ ch.d.downloads[1] = "Connection timed out"
    /\ ch.d.downloads[NStealthUrls] = "ERROR: Sign in to confirm you are not a bot"
    /\ ch.outcome = Raise("Connection timed out")

\* C26: a call of strategy 2 or 3 creates one temporary directory, which is
\* there during the try block and is gone once the call has returned or
\* raised, whatever the try block did; no other directory is touched.
C26_TempDirRemoved ==
    ch.pc \in {"try", "finally", "returned", "raised"}
        => /\ ch.made = 1
           /\ ch.pc \in {"try", "finally"}
                 => ch.dirs = ch.dirs0 \cup {TempDir(ch.strategy)}
           /\ ch.pc \in {"returned", "raised"}
                 => /\ ch.dirs = ch.dirs0
                    /\ TempDir(ch.strategy) \notin ch.dirs

\* Strategy 2 has raised the error of the speech-to-text call.
C26_Witness ==
    /\ ch.strategy = 2 /\ ch.pc = "raised"
    /\ ch.d.downloads[1] = DownloadOk /\ ch.d.audio
    /\ ch.outcome = Raise("Connection error.")
    /\ ch.made = 1 /\ ch.dirs = {OtherDir}

\* The call of summarize has ended past the resolver.
SummarizeEnded(r) == r.pc = "done" /\ r.status # 400

\* C27: a call of summarize leaves the cache as it is, whether it succeeds
\* or fails, and it does not read it: also for an id the cache holds a
\* result for, the chain is run and the response is made from the chain's
\* text and the generated summary, never from the cached result.
C27_SummarizeIgnoresCache ==
    /\ [][CACHE' = CACHE]_vars
    /\ [](/\ CACHE = CacheWithCachedId
          /\ SummarizeEnded(th[1])
                => /\ th[1].calls[1] = "fetch_transcript_text"
                   /\ th[1].invoked # <<>>
                   /\ th[1].status = 200
                         => /\ th[1].calls = <<"fetch_transcript_text", "chat.completions.create">>
                            /\ th[1].ret = Some([language |-> th[1].lang_code,
                                                   summary |-> "summary of request 1"])
                            /\ th[1].ret # get_cached_result(CACHE, th[1].video_id[1]))

\* A call for the cached id has answered with a summary it generated.
C27_Witness ==
    /\ th[1].video_id = Some(CachedId)
    /\ get_cached_result(CACHE, CachedId) = Some(SummaryOf(3))
    /\ SummarizeEnded(th[1]) /\ th[1].status = 200
    /\ th[1].ret[1].summary = "summary of request 1"

\* A call for the cached id has failed.
C27_WitnessFailed ==
    /\ th[1].video_id = Some(CachedId)
    /\ SummarizeEnded(th[1]) /\ th[1].status = 500

\* The adapter's call of the generative capability has been made for r.
AdapterCalled(r) == \E i \in 1..Len(r.calls) : r.calls[i] = "chat.completions.create"

StartsWith(str, prefix) == Len(str) >= Len(prefix) /\ SubSeq(str, 1, Len(prefix)) = prefix

\* C28: in every execution of summarize and of summarize_by_id the language
\* tag handed to the adapter is one of the five source tags (in summarize,
\* where the strategies' outcomes are recorded, the tag of the strategy that
\* returned the text) and never "ko"; every prompt the adapter sends is made
\* from the template for other languages, never from the one for "ko".
C28_SourceTagNeverPrimary ==
    \A t \in 1..Len(th) :
        /\ th[t].lang_code # "ko"
        /\ th[t].lang_code \in
              {"", "youtube_api", "whisper", "advanced_stealth", "selenium", "alternative"}
        /\ ("invoked" \in DOMAIN th[t] /\ th[t].lang_code # "")
              => th[t].lang_code =
                    <<"youtube_api", "whisper", "advanced_stealth", "selenium", "alternative">>
                        [th[t].invoked[Len(th[t].invoked)]]
        /\ AdapterCalled(th[t])
              => /\ th[t].lang_code # ""
                 /\ th[t].user_prompt = UserPromptTranslate \o truncate(th[t].text)
                 /\ ~StartsWith(th[t].user_prompt, UserPromptKo)

\* summarize_by_id has answered with the summary of a transcribed text.
C28_Witness ==
    /\ th[1].pc = "done" /\ th[1].status = 200
    /\ th[1].calls[1] = "get_video_duration"
    /\ th[1].lang_code = "whisper"
    /\ StartsWith(th[1].user_prompt, UserPromptTranslate)

\* summarize has answered with the summary of strategy 1's text.
C28_WitnessSummarize ==
    /\ th[1].pc = "done" /\ th[1].status = 200
    /\ th[1].calls[1] = "fetch_transcript_text"
    /\ th[1].lang_code = "youtube_api"
    /\ StartsWith(th[1].user_prompt, UserPromptTranslate)

====
